---- MODULE Spec2Model ----
(***************************************************************************)
(* A model of the PlantUML front end of diagrama: the typed AST           *)
(* (lib-plantuml/src/infra/ast/plant_uml_ast.rs), the AST -> Diagram       *)
(* mapper (lib-plantuml/src/adapters/ast_to_diagram_mapper.rs) and the     *)
(* Diagram entities (lib-core/src/domain/entities/diagram.rs).             *)
(*                                                                         *)
(* Rust values are modelled as follows:                                    *)
(*   String / &str      a sequence of one-character strings                *)
(*   Option<T>          a sequence of length <= 1 (None = <<>>)            *)
(*   Vec<T>             a sequence                                         *)
(*   HashMap<K, V>      a set of <<key, value>> pairs                      *)
(*   enum variant       the variant's name as a string                     *)
(*   struct             a record with the struct's field names             *)
(***************************************************************************)
EXTENDS Integers, Sequences, FiniteSets, TLC

VARIABLES
    source,         \* the parse tree handed to the AST builder (Option)
    built,          \* what the AST builder returned for it (Option)
    note_counter,   \* AstToDiagramMapper.note_counter of every mapper instance
    call,           \* per mapper: the arguments of the map call in progress (Option)
    frames,         \* per mapper: the call stack of map / map_package iterations
    returned,       \* per mapper: the map calls that returned, oldest first
    use_case        \* ParseDiagramSourceUseCase::execute: its position, its
                    \* argument, the calls its adapter received, what the
                    \* adapter answered and what it returned

vars == <<source, built, note_counter, call, frames, returned, use_case>>

-----------------------------------------------------------------------------
(* Bounds of the model. *)

\* Statements (counted at every nesting depth) of all ASTs handed to map.
MaxStmts == 3

\* map calls made, on all mapper instances together.
MaxCalls == 2

\* Statements of a file or of a package block of the parse trees.
MaxFileLen == 2

\* Characters of the member lines made of every character of MemberChars.
MaxLineLen == 3

\* The mapper instances: two, each owned by one caller.
Mappers == {"m1", "m2"}

-----------------------------------------------------------------------------
(* Rust's Option and String. *)

None == <<>>

Some(x) == <<x>>

\* Option::or
OptionOr(a, b) == IF a # None THEN a ELSE b

Digits == <<"0", "1", "2", "3", "4", "5", "6", "7", "8", "9">>

\* The decimal Display of an unsigned integer, as format!("{}", n) prints it.
RECURSIVE Decimal(_)
Decimal(n) ==
    IF n < 10 THEN <<Digits[n + 1]>>
    ELSE Decimal(n \div 10) \o <<Digits[(n % 10) + 1]>>

-----------------------------------------------------------------------------
(* The mapper's pure functions. *)

DiagramKind == {"Class", "Sequence", "Flowchart", "State"}

DefinitiveKinds == {"Class", "Interface", "AbstractClass", "Enum"}

\* determine_diagram_kind falling back to Sequence when nothing is definitive.
RECURSIVE determine_diagram_kind_sequence(_)
determine_diagram_kind_sequence(statements) ==
    IF statements = <<>> THEN "Sequence"
    ELSE LET stmt == Head(statements) IN
         CASE stmt.tag = "Element" ->
                IF stmt.kind \in DefinitiveKinds
                THEN "Class"
                ELSE determine_diagram_kind_sequence(Tail(statements))
           [] stmt.tag = "Package" ->
                determine_diagram_kind_sequence(stmt.children)
           [] OTHER -> determine_diagram_kind_sequence(Tail(statements))

\* determine_diagram_kind passing over packages without looking into them,
\* and reporting Sequence when the scan finds nothing definitive.
RECURSIVE determine_diagram_kind_skip_packages(_)
determine_diagram_kind_skip_packages(statements) ==
    IF statements = <<>> THEN "Sequence"
    ELSE LET stmt == Head(statements) IN
         IF stmt.tag = "Element" /\ stmt.kind \in DefinitiveKinds
         THEN "Class"
         ELSE determine_diagram_kind_skip_packages(Tail(statements))

\* determine_diagram_kind taking an actor met before anything definitive for
\* the mark of a sequence diagram.
RECURSIVE determine_diagram_kind_actor_sequence(_)
determine_diagram_kind_actor_sequence(statements) ==
    IF statements = <<>> THEN "Class"
    ELSE LET stmt == Head(statements) IN
         CASE stmt.tag = "Element" ->
                IF stmt.kind \in DefinitiveKinds THEN "Class"
                ELSE IF stmt.kind = "Actor" THEN "Sequence"
                ELSE determine_diagram_kind_actor_sequence(Tail(statements))
           [] stmt.tag = "Package" ->
                determine_diagram_kind_actor_sequence(stmt.children)
           [] OTHER -> determine_diagram_kind_actor_sequence(Tail(statements))

RECURSIVE determine_diagram_kind(_)
determine_diagram_kind(statements) ==
    IF statements = <<>> THEN "Class"
    ELSE LET stmt == Head(statements) IN
         CASE stmt.tag = "Element" ->
                IF stmt.kind \in DefinitiveKinds
                THEN "Class"
                ELSE determine_diagram_kind(Tail(statements))
           [] stmt.tag = "Package" -> determine_diagram_kind(stmt.children)
           [] OTHER -> determine_diagram_kind(Tail(statements))

\* The number of statements of the sequence the loop of
\* determine_diagram_kind visits before it returns: it returns at the first
\* definitive element and at the first package.
RECURSIVE determine_diagram_kind_visited(_)
determine_diagram_kind_visited(statements) ==
    IF statements = <<>> THEN 0
    ELSE LET stmt == Head(statements) IN
         CASE stmt.tag = "Element" ->
                IF stmt.kind \in DefinitiveKinds
                THEN 1
                ELSE 1 + determine_diagram_kind_visited(Tail(statements))
           [] stmt.tag = "Package" -> 1
           [] OTHER -> 1 + determine_diagram_kind_visited(Tail(statements))

\* map_node_type taking an enum for a class.
map_node_type_enum_as_class(kind) ==
    CASE kind \in {"Class", "AbstractClass", "Enum"} -> "Class"
      [] kind = "Interface" -> "Interface"
      [] kind = "Actor" -> "Actor"
      [] kind = "Database" -> "Database"
      [] kind = "Component" -> "Default"

map_node_type(kind) ==
    CASE kind \in {"Class", "AbstractClass"} -> "Class"
      [] kind = "Interface" -> "Interface"
      [] kind = "Actor" -> "Actor"
      [] kind = "Database" -> "Database"
      [] kind \in {"Enum", "Component"} -> "Default"

StereotypeKey == <<"s", "t", "e", "r", "e", "o", "t", "y", "p", "e">>

\* map_element preferring the alias to the display name.
map_element_alias_first(elem) ==
    [tag        |-> "Node",
     id         |-> elem.id,
     label      |-> OptionOr(elem.alias, elem.display_name),
     node_type  |-> map_node_type(elem.kind),
     properties |-> IF elem.stereotype # None
                    THEN {<<StereotypeKey, elem.stereotype[1].name>>}
                    ELSE {}]

map_element(elem) ==
    [tag        |-> "Node",
     id         |-> elem.id,
     label      |-> OptionOr(elem.display_name, elem.alias),
     node_type  |-> map_node_type(elem.kind),
     properties |-> IF elem.stereotype # None
                    THEN {<<StereotypeKey, elem.stereotype[1].name>>}
                    ELSE {}]

map_interaction_type(arrow_end) ==
    CASE arrow_end = "Inheritance" -> Some("Inheritance")
      [] arrow_end = "Composition" -> Some("Composition")
      [] arrow_end = "Aggregation" -> Some("Aggregation")
      [] arrow_end = "Dependency"  -> Some("Dependency")
      [] arrow_end = "Association" -> Some("Association")
      [] arrow_end = "None"        -> None

\* determine_interaction consulting the left end first.
determine_interaction_left_first(left, right) ==
    LET r == map_interaction_type(right)
        l == map_interaction_type(left)
    IN  IF l # None THEN l[1]
        ELSE IF r # None THEN r[1]
        ELSE "Association"

determine_interaction(left, right) ==
    LET r == map_interaction_type(right)
        l == map_interaction_type(left)
    IN  IF r # None THEN r[1]
        ELSE IF l # None THEN l[1]
        ELSE "Association"

\* map_line_type keeping the AST's name for a dotted line.
map_line_type_same_name(line) ==
    CASE line = "Solid"  -> "Solid"
      [] line = "Dotted" -> "Dotted"

map_line_type(line) ==
    CASE line = "Solid"  -> "Solid"
      [] line = "Dotted" -> "Dashed"

map_arrow_type(end) ==
    CASE end = "None" -> "None"
      [] end \in {"Association", "Dependency"} -> "Vee"
      [] end = "Inheritance" -> "Triangle"
      [] end = "Composition" -> "FilledDiamond"
      [] end = "Aggregation" -> "Diamond"

\* map_relation with the ends of the style exchanged.
map_relation_swapped(rel) ==
    [tag         |-> "Edge",
     from        |-> rel.from,
     to          |-> rel.to,
     label       |-> rel.label,
     interaction |-> determine_interaction(rel.arrow.left, rel.arrow.right),
     style       |-> [line |-> map_line_type(rel.arrow.line),
                      tail |-> map_arrow_type(rel.arrow.right),
                      head |-> map_arrow_type(rel.arrow.left)]]

map_relation(rel) ==
    [tag         |-> "Edge",
     from        |-> rel.from,
     to          |-> rel.to,
     label       |-> rel.label,
     interaction |-> determine_interaction(rel.arrow.left, rel.arrow.right),
     style       |-> [line |-> map_line_type(rel.arrow.line),
                      tail |-> map_arrow_type(rel.arrow.left),
                      head |-> map_arrow_type(rel.arrow.right)]]

map_cluster_type(kind) ==
    CASE kind = "Package"   -> "Package"
      [] kind = "Namespace" -> "Namespace"
      [] kind = "Folder"    -> "Folder"
      [] kind = "Rectangle" -> "Rectangle"
      [] kind = "Frame"     -> "Frame"
      [] kind = "Node"      -> "Subgraph"

\* map_package labelling every Cluster with the package's id.
map_package_labelled_by_id(pkg, children) ==
    [tag          |-> "Cluster",
     id           |-> pkg.id,
     label        |-> Some(pkg.id),
     cluster_type |-> map_cluster_type(pkg.kind),
     children     |-> children,
     properties   |-> {}]

\* The Cluster map_package returns once its children are mapped.
map_package(pkg, children) ==
    [tag          |-> "Cluster",
     id           |-> pkg.id,
     label        |-> pkg.display_name,
     cluster_type |-> map_cluster_type(pkg.kind),
     children     |-> children,
     properties   |-> {}]

map_note_position(pos) ==
    CASE pos = "Left"     -> "Left"
      [] pos = "Right"    -> "Right"
      [] pos = "Top"      -> "Top"
      [] pos = "Bottom"   -> "Bottom"
      [] pos = "Over"     -> "Over"
      [] pos = "Floating" -> "Floating"

NotePrefix == <<"n", "o", "t", "e", "_">>

\* format!("note_{}", counter)
NoteId(counter) == NotePrefix \o Decimal(counter)

\* map_note numbering from zero: the id is taken before the increment.
map_note_zero_based(note, counter) ==
    [tag            |-> "Note",
     id             |-> NoteId(counter - 1),
     text           |-> note.text,
     position       |-> map_note_position(note.position),
     target_node_id |-> note.target]

\* map_note dropping the target of a floating note.
map_note_untargeted_when_floating(note, counter) ==
    [tag            |-> "Note",
     id             |-> NoteId(counter),
     text           |-> note.text,
     position       |-> map_note_position(note.position),
     target_node_id |-> IF note.position = "Floating" THEN None
                        ELSE note.target]

\* The Note map_note returns, given the counter after its increment.
map_note(note, counter) ==
    [tag            |-> "Note",
     id             |-> NoteId(counter),
     text           |-> note.text,
     position       |-> map_note_position(note.position),
     target_node_id |-> note.target]

\* The Diagram map returns once the top-level statements are mapped.
Diagram(ast, kind, elements) ==
    [title    |-> IF ast.header # None THEN ast.header[1].title ELSE None,
     kind     |-> kind,
     elements |-> elements,
     styles   |-> {}]

-----------------------------------------------------------------------------
(* The ASTs handed to map. *)

S_User == <<"U", "s", "e", "r">>

S_Profile == <<"P", "r", "o", "f", "i", "l", "e">>

S_Auth == <<"A", "u", "t", "h">>

S_has == <<"h", "a", "s">>

S_text == <<"t", "e", "x", "t">>

UmlElement(kind, id, display_name, alias, stereotype) ==
    [tag |-> "Element", kind |-> kind, id |-> id, display_name |-> display_name,
     alias |-> alias, stereotype |-> stereotype, members |-> <<>>,
     modifiers |-> <<>>]

UmlRelation(from, to, line, left, right, label) ==
    [tag |-> "Relation", from |-> from, to |-> to,
     arrow |-> [line |-> line, left |-> left, right |-> right], label |-> label]

UmlPackage(kind, id, display_name, children) ==
    [tag |-> "Package", kind |-> kind, id |-> id, display_name |-> display_name,
     children |-> children]

UmlNote(text, position, target) ==
    [tag |-> "Note", text |-> text, position |-> position, target |-> target]

PlantUmlAst(statements) == [header |-> None, statements |-> statements]

\* The statements without children that the ASTs are made of: a definitive
\* element, an inconclusive one, a relation, an anchored and a floating note.
StatementInputs ==
    { UmlElement("Class", S_User, None, None, None),
      UmlRelation(S_User, S_Profile, "Solid", "Composition", "None", Some(S_has)),
      UmlNote(S_text, "Right", Some(S_User)),
      UmlNote(S_text, "Floating", None) }

PackageKindInputs == {"Folder"}

\* Forests(n): the statement sequences of exactly n statements, nested ones
\* counted; Trees(n): the statements of exactly n statements, itself counted.
RECURSIVE Forests(_), Trees(_)
Forests(n) ==
    IF n = 0 THEN {<<>>}
    ELSE UNION { { <<t>> \o f : t \in Trees(s), f \in Forests(n - s) } : s \in 1..n }

Trees(n) ==
    (IF n = 1 THEN StatementInputs ELSE {})
    \cup { UmlPackage(k, S_Auth, Some(S_Auth), c) :
             k \in PackageKindInputs, c \in Forests(n - 1) }

\* The ASTs of n statements, for every n the bound allows.
AstInputs == [n \in 0..MaxStmts |-> { PlantUmlAst(f) : f \in Forests(n) }]

S_Main == <<"M", "a", "i", "n">>

S_U == <<"U">>

S_mysql == <<"m", "y", "s", "q", "l">>

S_N1 == <<"N", "1">>

UmlElementKind ==
    {"Class", "Interface", "AbstractClass", "Enum", "Component", "Actor",
     "Database"}

UmlArrowEnd ==
    {"None", "Association", "Inheritance", "Composition", "Aggregation",
     "Dependency"}

UmlLineStyle == {"Solid", "Dotted"}

UmlPackageKind ==
    {"Package", "Namespace", "Node", "Folder", "Rectangle", "Frame"}

UmlNotePosition == {"Left", "Right", "Top", "Bottom", "Over", "Floating"}

\* Every value of the fields map_element reads.
ElementInputs ==
    { UmlElement(kind, S_User, display_name, alias, stereotype) :
        kind \in UmlElementKind,
        display_name \in {None, Some(S_Main)},
        alias \in {None, Some(S_U)},
        stereotype \in {None, Some([name |-> S_mysql])} }

\* Every value of the fields map_relation reads.
RelationInputs ==
    { UmlRelation(S_User, S_Profile, line, left, right, label) :
        line \in UmlLineStyle, left \in UmlArrowEnd, right \in UmlArrowEnd,
        label \in {None, Some(S_has)} }

\* Every value of the fields map_note reads.
NoteInputs ==
    { UmlNote(S_text, position, target) :
        position \in UmlNotePosition, target \in {None, Some(S_User)} }

\* Every value of the fields map_package reads, without children, and a
\* package around an element of every kind.
PackageInputs ==
    { UmlPackage(kind, S_Auth, display_name, <<>>) :
        kind \in UmlPackageKind, display_name \in {None, Some(S_Main)} }
    \cup { UmlPackage("Package", S_Auth, None,
                      <<UmlElement(kind, S_User, None, None, None)>>) :
             kind \in UmlElementKind }

\* The statements without children of the ASTs one fresh mapper maps: an
\* element of a definitive kind and of two inconclusive ones, a relation, an
\* anchored and a floating note.
FreshStatementInputs ==
    { UmlElement(kind, S_User, None, None, None) :
        kind \in {"Enum", "Actor", "Database"} }
    \cup { UmlRelation(S_User, S_Profile, "Dotted", "None", "Dependency", None),
           UmlNote(S_text, "Left", Some(S_User)),
           UmlNote(S_text, "Floating", None) }

RECURSIVE FreshForests(_), FreshTrees(_)
FreshForests(n) ==
    IF n = 0 THEN {<<>>}
    ELSE UNION { { <<t>> \o f : t \in FreshTrees(s), f \in FreshForests(n - s) } :
                 s \in 1..n }

FreshTrees(n) ==
    (IF n = 1 THEN FreshStatementInputs ELSE {})
    \cup { UmlPackage("Namespace", S_Auth, None, c) : c \in FreshForests(n - 1) }

\* The ASTs one fresh mapper maps: the statement sequences of up to MaxStmts
\* statements, and the one-statement ASTs of every field value.
FreshAstInputs ==
    { PlantUmlAst(f) : f \in UNION { FreshForests(n) : n \in 0..MaxStmts } }
    \cup { PlantUmlAst(<<stmt>>) :
             stmt \in ElementInputs \cup RelationInputs \cup NoteInputs
                      \cup PackageInputs }

\* The number of statements of a statement sequence, at every depth.
RECURSIVE Size(_)
Size(statements) ==
    IF statements = <<>> THEN 0
    ELSE LET stmt == Head(statements) IN
         1 + (IF stmt.tag = "Package" THEN Size(stmt.children) ELSE 0)
           + Size(Tail(statements))

RECURSIVE SumSizes(_)
SumSizes(calls) ==
    IF calls = <<>> THEN 0
    ELSE Size(Head(calls).ast.statements) + SumSizes(Tail(calls))

\* The statements handed to map so far, by every mapper.
RECURSIVE UsedBy(_)
UsedBy(ms) ==
    IF ms = {} THEN 0
    ELSE LET m == CHOOSE x \in ms : TRUE IN
         SumSizes(returned[m]) + SumSizes(call[m]) + UsedBy(ms \ {m})

\* The map calls made so far, by every mapper.
RECURSIVE CallsOf(_)
CallsOf(ms) ==
    IF ms = {} THEN 0
    ELSE LET m == CHOOSE x \in ms : TRUE IN
         Len(returned[m]) + Len(call[m]) + CallsOf(ms \ {m})

-----------------------------------------------------------------------------
(* Strings: the &str methods the AST builder uses. *)

\* str::trim_start_matches with a character predicate given as a set.
RECURSIVE TrimStartMatches(_, _)
TrimStartMatches(text, chars) ==
    IF text # <<>> /\ Head(text) \in chars
    THEN TrimStartMatches(Tail(text), chars)
    ELSE text

\* str::trim_end_matches with a character predicate given as a set.
RECURSIVE TrimEndMatches(_, _)
TrimEndMatches(text, chars) ==
    IF text # <<>> /\ text[Len(text)] \in chars
    THEN TrimEndMatches(SubSeq(text, 1, Len(text) - 1), chars)
    ELSE text

\* str::trim_matches
TrimMatches(text, chars) == TrimEndMatches(TrimStartMatches(text, chars), chars)

Whitespace == {" ", "\t", "\n", "\r"}

\* str::trim
Trim(text) == TrimMatches(text, Whitespace)

\* str::contains with a character
Contains(text, c) == \E i \in 1..Len(text) : text[i] = c

\* str::find with a character: the first index, the text must contain it.
Find(text, c) ==
    CHOOSE i \in 1..Len(text) :
        text[i] = c /\ \A j \in 1..(i - 1) : text[j] # c

\* str::rfind with a character: the last index, the text must contain it.
RFind(text, c) ==
    CHOOSE i \in 1..Len(text) :
        text[i] = c /\ \A j \in (i + 1)..Len(text) : text[j] # c

\* str::split_once with a character: None, or Some of the two sides of the
\* first occurrence.
SplitOnce(text, c) ==
    IF Contains(text, c)
    THEN Some(<<SubSeq(text, 1, Find(text, c) - 1),
                SubSeq(text, Find(text, c) + 1, Len(text))>>)
    ELSE None

\* str::split with a character, collected: the pieces between occurrences.
RECURSIVE Split(_, _)
Split(text, c) ==
    IF Contains(text, c)
    THEN <<SubSeq(text, 1, Find(text, c) - 1)>>
         \o Split(SubSeq(text, Find(text, c) + 1, Len(text)), c)
    ELSE <<text>>

StartsWith(text, c) == text # <<>> /\ text[1] = c

EndsWith(text, c) == text # <<>> /\ text[Len(text)] = c

\* str::contains with a string pattern
ContainsStr(text, pattern) ==
    \E i \in 1..(Len(text) - Len(pattern) + 1) :
        SubSeq(text, i, i + Len(pattern) - 1) = pattern

\* str::replace of a character by the empty string
RemoveChar(text, c) == LET Keep(x) == x # c IN SelectSeq(text, Keep)

-----------------------------------------------------------------------------
(* The parse tree: a pest Pair is its rule, the text it spans (as_str) and  *)
(* its inner pairs (into_inner).                                            *)

Pair(rule, str, inner) == [rule |-> rule, str |-> str, inner |-> inner]


K_class == <<"c", "l", "a", "s", "s">>

K_interface == <<"i", "n", "t", "e", "r", "f", "a", "c", "e">>

K_abstract_class ==
    <<"a", "b", "s", "t", "r", "a", "c", "t", " ", "c", "l", "a", "s", "s">>

K_enum == <<"e", "n", "u", "m">>

K_component == <<"c", "o", "m", "p", "o", "n", "e", "n", "t">>

K_actor == <<"a", "c", "t", "o", "r">>

K_database == <<"d", "a", "t", "a", "b", "a", "s", "e">>

K_package == <<"p", "a", "c", "k", "a", "g", "e">>

K_namespace == <<"n", "a", "m", "e", "s", "p", "a", "c", "e">>

K_node == <<"n", "o", "d", "e">>

K_folder == <<"f", "o", "l", "d", "e", "r">>

K_rectangle == <<"r", "e", "c", "t", "a", "n", "g", "l", "e">>

K_frame == <<"f", "r", "a", "m", "e">>

K_right == <<"r", "i", "g", "h", "t">>

K_left == <<"l", "e", "f", "t">>

K_top == <<"t", "o", "p">>

K_bottom == <<"b", "o", "t", "t", "o", "m">>

K_over == <<"o", "v", "e", "r">>

-----------------------------------------------------------------------------
(* The AST builder, PlantUmlAst::from_raw and the functions under it. *)

\* The outcome of code that reached unreachable!() or an out-of-range slice.
Panic == [tag |-> "Panic"]

IsPanic(x) == x.tag = "Panic"

\* extract_visibility consuming every leading sigil character, not one.
extract_visibility_all_sigils(trimmed_line) ==
    LET rest == TrimStartMatches(trimmed_line, {"+", "-", "#", "~"}) IN
    CASE Head(trimmed_line) = "+" -> [visibility |-> Some("Public"), rest |-> rest]
      [] Head(trimmed_line) = "-" -> [visibility |-> Some("Private"), rest |-> rest]
      [] Head(trimmed_line) = "#" -> [visibility |-> Some("Protected"), rest |-> rest]
      [] Head(trimmed_line) = "~" -> [visibility |-> Some("Package"), rest |-> rest]
      [] OTHER -> [visibility |-> None, rest |-> trimmed_line]

\* What a function returns when it does not panic, where the model has to
\* tell a returned sequence from Panic.
Ok(value) == [tag |-> "Ok", value |-> value]

extract_visibility(trimmed_line) ==
    CASE Head(trimmed_line) = "+" ->
           [visibility |-> Some("Public"), rest |-> Tail(trimmed_line)]
      [] Head(trimmed_line) = "-" ->
           [visibility |-> Some("Private"), rest |-> Tail(trimmed_line)]
      [] Head(trimmed_line) = "#" ->
           [visibility |-> Some("Protected"), rest |-> Tail(trimmed_line)]
      [] Head(trimmed_line) = "~" ->
           [visibility |-> Some("Package"), rest |-> Tail(trimmed_line)]
      [] OTHER -> [visibility |-> None, rest |-> trimmed_line]

\* The closure parse_parameters maps over the pieces.
UmlParameter(p) ==
    LET p_trimmed == Trim(p)
        halves == SplitOnce(p_trimmed, ":")
    IN  IF halves # None
        THEN [name |-> Trim(halves[1][1]), param_type |-> Some(Trim(halves[1][2]))]
        ELSE [name |-> p_trimmed, param_type |-> None]

\* parse_parameters without the early return for an empty text.
parse_parameters_of_empty(params_str) ==
    LET pieces == Split(params_str, ",")
    IN  [i \in 1..Len(pieces) |-> UmlParameter(pieces[i])]

parse_parameters(params_str) ==
    IF params_str = <<>> THEN <<>>
    ELSE LET pieces == Split(params_str, ",")
         IN  [i \in 1..Len(pieces) |-> UmlParameter(pieces[i])]

\* parse_return_type taking what follows the last `)` for the type whether
\* or not a `:` introduces it.
parse_return_type_lenient(signature, paren_end) ==
    IF Len(signature) > paren_end
    THEN Some(Trim(TrimStartMatches(
                       Trim(SubSeq(signature, paren_end + 1, Len(signature))),
                       {":"})))
    ELSE None

\* paren_end is the index of the last `)`, counted from 1.
parse_return_type(signature, paren_end) ==
    IF Len(signature) > paren_end
    THEN LET ret_part == Trim(SubSeq(signature, paren_end + 1, Len(signature)))
         IN  IF StartsWith(ret_part, ":") THEN Some(Trim(Tail(ret_part)))
             ELSE None
    ELSE None

\* The slice between the parentheses panics when the last `)` comes before
\* the first `(`.
parse_method(visibility, signature) ==
    LET paren_start == Find(signature, "(")
        paren_end == RFind(signature, ")")
    IN  IF paren_start > paren_end THEN Panic
        ELSE [tag         |-> "Method",
              visibility  |-> visibility,
              name        |-> Trim(SubSeq(signature, 1, paren_start - 1)),
              parameters  |-> parse_parameters(
                                  Trim(SubSeq(signature, paren_start + 1,
                                              paren_end - 1))),
              return_type |-> parse_return_type(signature, paren_end)]

parse_field(visibility, signature) ==
    LET halves == SplitOnce(signature, ":")
    IN  IF halves # None
        THEN [tag |-> "Field", visibility |-> visibility,
              name |-> Trim(halves[1][1]),
              field_type |-> Some(Trim(halves[1][2]))]
        ELSE [tag |-> "Field", visibility |-> visibility,
              name |-> signature, field_type |-> None]

parse_member_line(line) ==
    LET trimmed == Trim(line) IN
    IF trimmed = <<>> THEN [tag |-> "Raw", text |-> trimmed]
    ELSE LET split == extract_visibility(trimmed)
             signature == Trim(split.rest)
         IN  IF Contains(signature, "(") /\ Contains(signature, ")")
             THEN parse_method(split.visibility, signature)
             ELSE parse_field(split.visibility, signature)

\* The loop of apply_element_component over the pairs of a body_block: Ok
\* of the members vector after it, or Panic.
RECURSIVE PushMembers(_, _)
PushMembers(members, member_pairs) ==
    IF member_pairs = <<>> THEN Ok(members)
    ELSE LET member_pair == Head(member_pairs) IN
         IF member_pair.rule = "member"
         THEN LET member == parse_member_line(member_pair.inner[1].str) IN
              IF IsPanic(member) THEN Panic
              ELSE PushMembers(Append(members, member), Tail(member_pairs))
         ELSE PushMembers(members, Tail(member_pairs))

\* build_identifier giving every identifier a display name.
build_identifier_always_named(pair) ==
    LET text == pair.str IN
    IF StartsWith(text, "\"") /\ EndsWith(text, "\"")
    THEN LET inner_str == SubSeq(text, 2, Len(text) - 1) IN
         [id |-> inner_str, display_name |-> Some(inner_str)]
    ELSE [id |-> text, display_name |-> Some(text)]

build_identifier(pair) ==
    LET text == pair.str IN
    IF StartsWith(text, "\"") /\ EndsWith(text, "\"")
    THEN LET inner_str == SubSeq(text, 2, Len(text) - 1) IN
         [id |-> inner_str, display_name |-> Some(inner_str)]
    ELSE [id |-> text, display_name |-> None]

map_element_kind(kind_str) ==
    CASE kind_str = K_class -> "Class"
      [] kind_str = K_interface -> "Interface"
      [] kind_str = K_abstract_class -> "AbstractClass"
      [] kind_str = K_enum -> "Enum"
      [] kind_str = K_component -> "Component"
      [] kind_str = K_actor -> "Actor"
      [] kind_str = K_database -> "Database"
      [] OTHER -> "Panic"

apply_element_component(element, component) ==
    CASE component.rule = "alias" ->
           [element EXCEPT !.alias = Some(component.inner[1].str)]
      [] component.rule = "stereotype" ->
           [element EXCEPT !.stereotype =
               Some([name |-> TrimMatches(component.str, {"<", ">"})])]
      [] component.rule = "body_block" ->
           LET members == PushMembers(element.members, component.inner) IN
           IF IsPanic(members) THEN Panic
           ELSE [element EXCEPT !.members = members.value]
      [] OTHER -> element

\* The loop of build_element over the components after kind and identifier.
RECURSIVE ApplyElementComponents(_, _)
ApplyElementComponents(element, components) ==
    IF components = <<>> THEN element
    ELSE LET next == apply_element_component(element, Head(components)) IN
         IF IsPanic(next) THEN Panic
         ELSE ApplyElementComponents(next, Tail(components))

build_element(pair) ==
    LET kind == map_element_kind(pair.inner[1].str)
        ident == build_identifier(pair.inner[2])
    IN  IF kind = "Panic" THEN Panic
        ELSE ApplyElementComponents(
                 UmlElement(kind, ident.id, ident.display_name, None, None),
                 SubSeq(pair.inner, 3, Len(pair.inner)))

map_arrow_head(s) ==
    CASE s \in {<<"<", "|">>, <<"|", ">">>} -> "Inheritance"
      [] s = <<"*">> -> "Composition"
      [] s = <<"o">> -> "Aggregation"
      [] s \in {<<"<">>, <<">">>} -> "Association"
      [] OTHER -> "None"

\* adjust_arrow_for_dependencies upgrading the right end only.
adjust_arrow_right_only(arrow) ==
    IF arrow.line = "Dotted"
    THEN [arrow EXCEPT
            !.right = IF @ = "Association" THEN "Dependency" ELSE @]
    ELSE arrow

adjust_arrow_for_dependencies(arrow) ==
    IF arrow.line = "Dotted"
    THEN [arrow EXCEPT
            !.left  = IF @ = "Association" THEN "Dependency" ELSE @,
            !.right = IF @ = "Association" THEN "Dependency" ELSE @]
    ELSE arrow

\* The loop of build_arrow over the arrow's components.
RECURSIVE ArrowComponents(_, _)
ArrowComponents(arrow, components) ==
    IF components = <<>> THEN arrow
    ELSE LET component == Head(components)
             next ==
               CASE component.rule = "arrow_head_left" ->
                      [arrow EXCEPT !.left = map_arrow_head(component.str)]
                 [] component.rule = "arrow_head_right" ->
                      [arrow EXCEPT !.right = map_arrow_head(component.str)]
                 [] component.rule = "line_style" ->
                      [arrow EXCEPT !.line =
                          IF Contains(component.str, ".")
                          THEN "Dotted" ELSE "Solid"]
                 [] OTHER -> arrow
         IN  ArrowComponents(next, Tail(components))

build_arrow(pair) ==
    adjust_arrow_for_dependencies(
        ArrowComponents([line |-> "Solid", left |-> "None", right |-> "None"],
                        pair.inner))

build_relation(pair) ==
    [tag   |-> "Relation",
     from  |-> build_identifier(pair.inner[1]).id,
     to    |-> build_identifier(pair.inner[3]).id,
     arrow |-> build_arrow(pair.inner[2]),
     label |-> IF Len(pair.inner) >= 4
               THEN Some(Trim(TrimStartMatches(pair.inner[4].str, {":"})))
               ELSE None]

map_package_kind(kind_str) ==
    CASE kind_str = K_package -> "Package"
      [] kind_str = K_namespace -> "Namespace"
      [] kind_str = K_node -> "Node"
      [] kind_str = K_folder -> "Folder"
      [] kind_str = K_rectangle -> "Rectangle"
      [] kind_str = K_frame -> "Frame"
      [] OTHER -> "Panic"

ast_map_note_position(pos_str) ==
    CASE pos_str = K_right -> "Right"
      [] pos_str = K_left -> "Left"
      [] pos_str = K_top -> "Top"
      [] pos_str = K_bottom -> "Bottom"
      [] pos_str = K_over -> "Over"
      [] OTHER -> "Floating"

build_positional_note(position_pair, remaining) ==
    UmlNote(remaining[2].str, ast_map_note_position(position_pair.str),
            Some(remaining[1].str))

\* build_floating_note leaving a floating note without a target.
build_floating_note_untargeted(text_pair, remaining) ==
    UmlNote(text_pair.str, "Floating", None)

build_floating_note(text_pair, remaining) ==
    UmlNote(text_pair.str, "Floating", Some(remaining[1].str))

build_note(pair) ==
    LET first == pair.inner[1]
        remaining == Tail(pair.inner)
    IN  IF first.rule = "position"
        THEN build_positional_note(first, remaining)
        ELSE build_floating_note(first, remaining)

\* build_statement and build_package call each other: a package's children
\* are built by build_statement. A panic below aborts everything above it.
RECURSIVE build_statement(_), build_package(_), BuildChildren(_)
build_statement(pair) ==
    CASE pair.rule = "class_def" -> build_element(pair)
      [] pair.rule = "relation_def" -> build_relation(pair)
      [] pair.rule = "package_def" -> build_package(pair)
      [] pair.rule = "note_def" -> build_note(pair)
      [] OTHER -> Panic

\* The loop of build_package over the components after kind and identifier:
\* Ok of the built children, or Panic.
BuildChildren(components) ==
    IF components = <<>> THEN Ok(<<>>)
    ELSE LET component == Head(components) IN
         IF component.rule = "statement"
         THEN LET child == build_statement(component.inner[1]) IN
              IF IsPanic(child) THEN Panic
              ELSE LET rest == BuildChildren(Tail(components)) IN
                   IF IsPanic(rest) THEN Panic
                   ELSE Ok(<<child>> \o rest.value)
         ELSE BuildChildren(Tail(components))

build_package(pair) ==
    LET kind == map_package_kind(pair.inner[1].str)
        ident == build_identifier(pair.inner[2])
        children == BuildChildren(SubSeq(pair.inner, 3, Len(pair.inner)))
    IN  IF kind = "Panic" \/ IsPanic(children) THEN Panic
        ELSE UmlPackage(kind, ident.id, ident.display_name, children.value)

\* process_statement: the statements vector after the statement pair.
process_statement(pair, statements) ==
    LET stmt_pair == pair.inner[1] IN
    IF stmt_pair.rule \in {"skinparam", "hide_show"} THEN Ok(statements)
    ELSE LET stmt == build_statement(stmt_pair) IN
         IF IsPanic(stmt) THEN Panic ELSE Ok(Append(statements, stmt))

\* process_file_pairs: the statements vector after the pairs of the file.
RECURSIVE process_file_pairs(_, _)
process_file_pairs(pairs, statements) ==
    IF pairs = <<>> THEN Ok(statements)
    ELSE LET pair == Head(pairs) IN
         CASE pair.rule = "statement" ->
                LET after == process_statement(pair, statements) IN
                IF IsPanic(after) THEN Panic
                ELSE process_file_pairs(Tail(pairs), after.value)
           [] pair.rule \in {"EOI", "start_uml", "end_uml"} ->
                process_file_pairs(Tail(pairs), statements)
           [] OTHER -> Panic

\* from_raw on the parse tree of an input the grammar accepted.
from_raw(file_pair) ==
    LET statements == process_file_pairs(file_pair.inner, <<>>) IN
    IF IsPanic(statements) THEN Panic
    ELSE Ok([header |-> None, statements |-> statements.value])

-----------------------------------------------------------------------------
(* The one-stage adapter, DiagramParserAdapterPlantumlImpl: the public     *)
(* parse and the functions under it, which build the Diagram from the      *)
(* parse tree without the typed AST.                                       *)

\* Result::Err
Err(error) == [tag |-> "Err", error |-> error]

parse_arrow_string(arrow) ==
    [interaction |->
        IF ContainsStr(arrow, <<"|", ">">>) THEN "Inheritance"
        ELSE IF Contains(arrow, "*") THEN "Composition"
        ELSE "Association",
     style |->
        [line |-> IF ContainsStr(arrow, <<".", ".">>) THEN "Dotted"
                  ELSE "Solid",
         head |-> "Vee",
         tail |-> "None"]]

clean_label(s) == TrimMatches(Trim(TrimMatches(Trim(s), {":"})), {"\""})

\* The loop of the adapter's map_class over the parts after kind and id.
RECURSIVE ClassParts(_, _)
ClassParts(node, parts) ==
    IF parts = <<>> THEN node
    ELSE LET part == Head(parts)
             next ==
               CASE part.rule = "alias" ->
                      [node EXCEPT !.label = Some(part.inner[1].str)]
                 [] part.rule = "stereotype" ->
                      [node EXCEPT !.properties =
                          { kv \in @ : kv[1] # StereotypeKey }
                          \cup {<<StereotypeKey, part.str>>}]
                 [] OTHER -> node
         IN  ClassParts(next, Tail(parts))

\* DiagramParserAdapterPlantumlImpl::map_class
adapter_map_class(pair) ==
    LET kind_str == pair.inner[1].str
        id == RemoveChar(pair.inner[2].str, "\"")
    IN  ClassParts([tag        |-> "Node",
                    id         |-> id,
                    label      |-> Some(id),
                    node_type  |-> CASE kind_str = K_interface -> "Interface"
                                     [] kind_str = K_actor -> "Actor"
                                     [] kind_str = K_database -> "Database"
                                     [] OTHER -> "Class",
                    properties |-> {}],
                   SubSeq(pair.inner, 3, Len(pair.inner)))

\* DiagramParserAdapterPlantumlImpl::map_relation
adapter_map_relation(pair) ==
    LET parsed == parse_arrow_string(pair.inner[2].str)
    IN  [tag         |-> "Edge",
         from        |-> RemoveChar(pair.inner[1].str, "\""),
         to          |-> RemoveChar(pair.inner[3].str, "\""),
         label       |-> IF Len(pair.inner) >= 4
                         THEN Some(clean_label(pair.inner[4].str))
                         ELSE None,
         interaction |-> parsed.interaction,
         style       |-> parsed.style]

\* DiagramParserAdapterPlantumlImpl::map_note
adapter_map_note(pair) ==
    [tag            |-> "Note",
     id             |-> NotePrefix \o Decimal(Len(pair.str)),
     text           |-> pair.str,
     position       |-> "Floating",
     target_node_id |-> None]

\* parse_statement and the adapter's map_package call each other; an
\* Option of the Element comes back.
RECURSIVE parse_statement(_), adapter_map_package(_), PackageParts(_)
parse_statement(pair) ==
    CASE pair.rule = "class_def" -> Some(adapter_map_class(pair))
      [] pair.rule = "relation_def" -> Some(adapter_map_relation(pair))
      [] pair.rule = "package_def" -> Some(adapter_map_package(pair))
      [] pair.rule = "note_def" -> Some(adapter_map_note(pair))
      [] OTHER -> None

\* The loop of the adapter's map_package over the parts after kind and id.
PackageParts(parts) ==
    IF parts = <<>> THEN <<>>
    ELSE LET part == Head(parts) IN
         (IF part.rule = "statement" THEN parse_statement(part.inner[1])
          ELSE <<>>)
         \o PackageParts(Tail(parts))

adapter_map_package(pair) ==
    LET id == RemoveChar(pair.inner[2].str, "\"")
    IN  [tag          |-> "Cluster",
         id           |-> id,
         label        |-> Some(id),
         cluster_type |-> "Package",
         children     |-> PackageParts(SubSeq(pair.inner, 3, Len(pair.inner))),
         properties   |-> {}]

\* The loop of parse over the pairs of the file: it ends at EOI.
RECURSIVE FileParts(_)
FileParts(pairs) ==
    IF pairs = <<>> THEN <<>>
    ELSE LET statement == Head(pairs) IN
         CASE statement.rule = "statement" ->
                parse_statement(statement.inner[1]) \o FileParts(Tail(pairs))
           [] statement.rule = "EOI" -> <<>>
           [] OTHER -> FileParts(Tail(pairs))

S_ParseError ==
    <<"P", "a", "r", "s", "e", " ", "e", "r", "r", "o", "r", ":", " ">>

S_EmptyInput == <<"E", "m", "p", "t", "y", " ", "i", "n", "p", "u", "t">>

\* What the grammar makes of a source text: the pairs of Rule::file, or an
\* error with its Display text.
Accepted(pairs) == [tag |-> "Accepted", pairs |-> pairs]

Rejected(error) == [tag |-> "Rejected", error |-> error]

\* DiagramParserAdapterPlantumlImpl::parse
parse(src) ==
    IF src.tag = "Rejected" THEN Err(S_ParseError \o src.error)
    ELSE IF src.pairs = <<>> THEN Err(S_EmptyInput)
    ELSE Ok([title    |-> None,
             kind     |-> "Class",
             elements |-> FileParts(src.pairs[1].inner),
             styles   |-> {}])

\* execute putting the adapter's prefix in front of the message again.
execute_prefixing(parsed) ==
    IF parsed.tag = "Err"
    THEN Err([tag |-> "ParserError", context |-> S_ParseError \o parsed.error])
    ELSE parsed

\* ParseDiagramSourceUseCase::execute, once its adapter's parse answered.
execute(parsed) ==
    IF parsed.tag = "Err"
    THEN Err([tag |-> "ParserError", context |-> parsed.error])
    ELSE parsed

-----------------------------------------------------------------------------
(* The parse trees handed to from_raw: what the grammar produces for the   *)
(* productions of the specification.                                       *)

Quoted(text) == <<"\"">> \o text \o <<"\"">>

\* A sequence that is empty when the optional component is absent.
Optional(pairs) == {<<>>} \cup { <<x>> : x \in pairs }

Identifier(text) == Pair("identifier", text, <<>>)

ElementKindTexts ==
    {K_class, K_interface, K_abstract_class, K_enum, K_component, K_actor,
     K_database}

PackageKindTexts ==
    {K_package, K_namespace, K_node, K_folder, K_rectangle, K_frame}

PositionTexts == {K_right, K_left, K_top, K_bottom, K_over}

\* class_def = element_kind identifier alias? stereotype?
ClassDef(kind, id, alias, stereotype) ==
    Pair("class_def", kind \o <<" ">> \o id,
         <<Pair("element_kind", kind, <<>>), Identifier(id)>>
         \o alias \o stereotype)

ClassDefInputs ==
    { ClassDef(kind, id, alias, stereotype) :
        kind \in ElementKindTexts,
        id \in {S_User, Quoted(S_Main)},
        alias \in Optional({Pair("alias", <<"a", "s", " ", "U">>,
                                 <<Identifier(S_U)>>)}),
        stereotype \in Optional({Pair("stereotype",
                                      <<"<", "<">> \o S_mysql \o <<">", ">">>,
                                      <<>>)}) }

\* body_block = "{" member_line* "}"
BodyBlock(lines) ==
    Pair("body_block", <<"{", "}">>,
         [i \in 1..Len(lines) |->
            Pair("member", lines[i], <<Pair("member_line", lines[i], <<>>)>>)])

\* -id: Int
L_field == <<"-", "i", "d", ":", " ", "I", "n", "t">>

\* +get(a: B): C
L_method ==
    <<"+", "g", "e", "t", "(", "a", ":", " ", "B", ")", ":", " ", "C">>

\* a)b(
L_reversed == <<"a", ")", "b", "(">>

\* f(a: B, c)
L_two_params == <<"f", "(", "a", ":", " ", "B", ",", " ", "c", ")">>

\* A class with a body of one or two member lines.
BodyClassDefInputs ==
    { ClassDef(K_class, S_User, <<>>, <<BodyBlock(lines)>>) :
        lines \in {<<L_field>>, <<L_method>>, <<L_field, L_method>>,
                   <<L_reversed>>} }

LeftHeadTexts == {<<"<", "|">>, <<"*">>, <<"o">>, <<"<">>}

RightHeadTexts == {<<"|", ">">>, <<"*">>, <<"o">>, <<">">>}

LineStyleTexts == {<<"-", "-">>, <<".", ".">>, <<"-">>}

RECURSIVE ConcatStr(_)
ConcatStr(pairs) ==
    IF pairs = <<>> THEN <<>> ELSE Head(pairs).str \o ConcatStr(Tail(pairs))

\* arrow = line_style? arrow_head_left? arrow_head_right? line_style?, with
\* a line on one side of the heads at least: no arrow is without dashes.
ArrowInputs ==
    { LET inner == lines[1] \o left \o right \o lines[2] IN
      Pair("arrow", ConcatStr(inner), inner) :
        lines \in { l \in Optional({ Pair("line_style", t, <<>>) :
                                        t \in LineStyleTexts })
                        \X Optional({ Pair("line_style", t, <<>>) :
                                        t \in LineStyleTexts }) :
                      l[1] # <<>> \/ l[2] # <<>> },
        left \in Optional({ Pair("arrow_head_left", t, <<>>) : t \in LeftHeadTexts }),
        right \in Optional({ Pair("arrow_head_right", t, <<>>) : t \in RightHeadTexts }) }

\* relation_def = identifier arrow identifier label?
RelationDef(from, arrow, to, label) ==
    Pair("relation_def", from \o <<" ">> \o arrow.str \o <<" ">> \o to,
         <<Identifier(from), arrow, Identifier(to)>> \o label)

RelationDefInputs ==
    { RelationDef(S_User, arrow, S_Profile, label) :
        arrow \in ArrowInputs,
        label \in Optional({Pair("label", <<":", " ">> \o S_has, <<>>)}) }

\* Auth ..> User
DottedDependencyDef ==
    RelationDef(S_Auth,
                Pair("arrow", <<".", ".", ">">>,
                     <<Pair("line_style", <<".", ".">>, <<>>),
                       Pair("arrow_head_right", <<">">>, <<>>)>>),
                S_User, <<>>)

\* class User
SimpleClassDef == ClassDef(K_class, S_User, <<>>, <<>>)

\* positional_note = "note" position "of" identifier ":" text
\* floating_note   = "note" quoted_text "as" identifier
NoteDefInputs ==
    { Pair("note_def", <<"n", "o", "t", "e", " ">> \o position,
           <<Pair("position", position, <<>>), Identifier(S_User),
             Pair("text", S_text, <<>>)>>) :
        position \in PositionTexts }
    \cup { Pair("note_def", <<"n", "o", "t", "e", " ">> \o Quoted(S_text),
                <<Pair("text", S_text, <<>>), Identifier(S_N1)>>) }

\* ignorable: a style directive or a visibility directive
IgnorableInputs ==
    { Pair("skinparam", <<"s", "k", "i", "n", "p", "a", "r", "a", "m">>, <<>>),
      Pair("hide_show", <<"h", "i", "d", "e">>, <<>>) }

Statement(pair) == Pair("statement", pair.str, <<pair>>)

\* The statements packages and longer files are made of.
SmallStatementInputs ==
    { ClassDef(K_class, S_User, <<>>, <<>>),
      Pair("note_def", <<"n", "o", "t", "e", " ">> \o K_right,
           <<Pair("position", K_right, <<>>), Identifier(S_User),
             Pair("text", S_text, <<>>)>>),
      Pair("skinparam", <<"s", "k", "i", "n", "p", "a", "r", "a", "m">>, <<>>) }

\* package_def = package_kind identifier "{" statement* "}"
PackageDef(kind, id, children) ==
    Pair("package_def", kind \o <<" ">> \o id,
         <<Pair("package_kind", kind, <<>>), Identifier(id)>> \o children)

\* Statement sequences of up to n statements of the small set, with
\* packages of them nested up to depth d.
RECURSIVE SmallSequences(_, _)
SmallSequences(n, d) ==
    IF n = 0 THEN {<<>>}
    ELSE LET shorter == SmallSequences(n - 1, d)
             items == SmallStatementInputs
                      \cup (IF d = 0 THEN {}
                            ELSE { PackageDef(K_package, S_Auth, c) :
                                     c \in SmallSequences(n - 1, d - 1) })
         IN  shorter \cup { <<Statement(x)>> \o r : x \in items,
                            r \in { q \in shorter : Len(q) = n - 1 } }

PackageDefInputs ==
    { PackageDef(kind, id, <<>>) :
        kind \in PackageKindTexts, id \in {S_Auth, Quoted(S_Auth)} }

File(statements) ==
    Pair("file", <<>>, statements \o <<Pair("EOI", <<>>, <<>>)>>)

\* The files: one statement of every shape, and the sequences of up to
\* MaxFileLen small statements, between @startuml and @enduml or not.
FileInputs ==
    { File(<<Statement(x)>>) :
        x \in ClassDefInputs \cup RelationDefInputs \cup NoteDefInputs
              \cup PackageDefInputs \cup IgnorableInputs
              \cup BodyClassDefInputs \cup {DottedDependencyDef} }
    \cup { File(q) : q \in SmallSequences(MaxFileLen, MaxFileLen - 1) }
    \cup { Pair("file", <<>>,
                <<Pair("start_uml", <<>>, <<>>)>> \o q
                \o <<Pair("end_uml", <<>>, <<>>), Pair("EOI", <<>>, <<>>)>>) :
             q \in SmallSequences(1, 0) }

-----------------------------------------------------------------------------
(* The mapper as a state machine. A frame is one iteration over a statement *)
(* sequence: the one of map (pkg = None) or the one of a map_package.       *)

Frame(todo, pkg) == [todo |-> todo, elements |-> <<>>, pkg |-> pkg]

Top(m) == frames[m][Len(frames[m])]

\* The stack with its top frame replaced.
SetTop(m, f) == [frames[m] EXCEPT ![Len(frames[m])] = f]

\* Advance putting the mapped element in front of the earlier ones.
Advance_prepending(m, e) ==
    [Top(m) EXCEPT !.todo = Tail(@), !.elements = <<e>> \o @]

\* The top frame after its next statement was mapped to element e.
Advance(m, e) ==
    [Top(m) EXCEPT !.todo = Tail(@), !.elements = Append(@, e)]

NextIs(m, tag) ==
    /\ frames[m] # <<>>
    /\ Top(m).todo # <<>>
    /\ Head(Top(m).todo).tag = tag

\* AstToDiagramMapper::new
new == [note_counter |-> 0]

\* Every mapper as constructed, no map call made.
InitMappers ==
    /\ note_counter = [m \in Mappers |-> new.note_counter]
    /\ call = [m \in Mappers |-> None]
    /\ frames = [m \in Mappers |-> <<>>]
    /\ returned = [m \in Mappers |-> <<>>]

\* No execute call made.
Idle ==
    [pc |-> "idle", source |-> None, parser_calls |-> <<>>, parsed |-> None,
     result |-> None]

Init ==
    /\ source = None
    /\ built = None
    /\ InitMappers
    /\ use_case = Idle

\* map resetting the counter on entry.
Map_resetting(m, ast) ==
    /\ call[m] = None
    /\ CallsOf(Mappers) < MaxCalls
    /\ UsedBy(Mappers) + Size(ast.statements) <= MaxStmts
    /\ call' = [call EXCEPT ![m] =
                  Some([ast |-> ast,
                        kind |-> determine_diagram_kind(ast.statements)])]
    /\ frames' = [frames EXCEPT ![m] = <<Frame(ast.statements, None)>>]
    /\ note_counter' = [note_counter EXCEPT ![m] = 0]
    /\ UNCHANGED <<use_case, source, built, returned>>

\* map is entered: the kind is determined, then the statements are iterated.
Map(m, ast) ==
    /\ call[m] = None
    /\ CallsOf(Mappers) < MaxCalls
    /\ UsedBy(Mappers) + Size(ast.statements) <= MaxStmts
    /\ call' = [call EXCEPT ![m] =
                  Some([ast |-> ast,
                        kind |-> determine_diagram_kind(ast.statements)])]
    /\ frames' = [frames EXCEPT ![m] = <<Frame(ast.statements, None)>>]
    /\ UNCHANGED <<use_case, source, built, note_counter, returned>>

\* map_statement, UmlStatement::Element
MapElement(m) ==
    /\ NextIs(m, "Element")
    /\ frames' = [frames EXCEPT ![m] =
                    SetTop(m, Advance(m, map_element(Head(Top(m).todo))))]
    /\ UNCHANGED <<use_case, source, built, note_counter, call, returned>>

\* map_statement, UmlStatement::Relation
MapRelation(m) ==
    /\ NextIs(m, "Relation")
    /\ frames' = [frames EXCEPT ![m] =
                    SetTop(m, Advance(m, map_relation(Head(Top(m).todo))))]
    /\ UNCHANGED <<use_case, source, built, note_counter, call, returned>>

\* The counters of a set of mappers, added up.
RECURSIVE CounterSum(_)
CounterSum(ms) ==
    IF ms = {} THEN 0
    ELSE LET m == CHOOSE x \in ms : TRUE IN
         note_counter[m] + CounterSum(ms \ {m})

\* A counter that is one static shared by every mapper instance.
NextCounter_static(m) == CounterSum(Mappers) + 1

\* A counter that continues from the most advanced mapper instance.
NextCounter_ambient(m) ==
    (CHOOSE c \in { note_counter[x] : x \in Mappers } :
        \A x \in Mappers : note_counter[x] <= c) + 1

\* A counter scoped to the statement sequence being iterated: the notes of
\* every package are numbered from 1.
NextCounter_scoped(m) ==
    Cardinality({ i \in 1..Len(Top(m).elements) :
                    Top(m).elements[i].tag = "Note" }) + 1

\* The counter map_note leaves behind.
NextCounter(m) == note_counter[m] + 1

\* map_statement, UmlStatement::Note
MapNote(m) ==
    /\ NextIs(m, "Note")
    /\ note_counter' = [note_counter EXCEPT ![m] = NextCounter(m)]
    /\ frames' = [frames EXCEPT ![m] =
                    SetTop(m, Advance(m, map_note(Head(Top(m).todo),
                                                  NextCounter(m))))]
    /\ UNCHANGED <<use_case, source, built, call, returned>>

\* map_statement, UmlStatement::Package: map_package starts on the children.
MapPackage(m) ==
    /\ NextIs(m, "Package")
    /\ LET pkg == Head(Top(m).todo) IN
       frames' = [frames EXCEPT ![m] =
                    Append(SetTop(m, [Top(m) EXCEPT !.todo = Tail(@)]),
                           Frame(pkg.children, Some(pkg)))]
    /\ UNCHANGED <<use_case, source, built, note_counter, call, returned>>

\* map_package returns its Cluster to the iteration that called it.
MapPackageReturn(m) ==
    /\ Len(frames[m]) > 1
    /\ Top(m).todo = <<>>
    /\ LET f == Top(m)
           below == SubSeq(frames[m], 1, Len(frames[m]) - 1)
           parent == below[Len(below)]
       IN  frames' = [frames EXCEPT ![m] =
                        [below EXCEPT ![Len(below)] =
                           [parent EXCEPT !.elements =
                              Append(@, map_package(f.pkg[1], f.elements))]]]
    /\ UNCHANGED <<use_case, source, built, note_counter, call, returned>>

\* map returns the Diagram.
MapReturn(m) ==
    /\ Len(frames[m]) = 1
    /\ Top(m).todo = <<>>
    /\ returned' = [returned EXCEPT ![m] =
                      Append(@, [ast |-> call[m][1].ast,
                                 diagram |-> Diagram(call[m][1].ast,
                                                     call[m][1].kind,
                                                     Top(m).elements)])]
    /\ call' = [call EXCEPT ![m] = None]
    /\ frames' = [frames EXCEPT ![m] = <<>>]
    /\ UNCHANGED <<use_case, source, built, note_counter>>

\* Callers hand ASTs to the two mappers and the calls run interleaved.
CallMap(m) ==
    /\ call[m] = None
    /\ CallsOf(Mappers) < MaxCalls
    /\ \E n \in 0..(MaxStmts - UsedBy(Mappers)) :
           \E a \in AstInputs[n] : Map(m, a)

Next ==
    \E m \in Mappers :
        \/ CallMap(m)
        \/ MapElement(m)
        \/ MapRelation(m)
        \/ MapNote(m)
        \/ MapPackage(m)
        \/ MapPackageReturn(m)
        \/ MapReturn(m)

Spec == Init /\ [][Next]_vars

-----------------------------------------------------------------------------
(* One freshly constructed mapper maps one AST. *)

MapFresh ==
    /\ returned["m1"] = <<>>
    /\ call["m1"] = None
    /\ \E a \in FreshAstInputs : Map("m1", a)

NextFresh ==
    \/ MapFresh
    \/ MapElement("m1")
    \/ MapRelation("m1")
    \/ MapNote("m1")
    \/ MapPackage("m1")
    \/ MapPackageReturn("m1")
    \/ MapReturn("m1")

SpecFresh == Init /\ [][NextFresh]_vars

-----------------------------------------------------------------------------
(* The two-stage pipeline: from_raw builds the AST of a parse tree, a      *)
(* freshly constructed mapper maps it.                                     *)

InitPipeline ==
    /\ source \in { Some(f) : f \in FileInputs }
    /\ built = None
    /\ InitMappers
    /\ use_case = Idle

FromRaw ==
    /\ source # None
    /\ built = None
    /\ built' = Some(from_raw(source[1]))
    /\ UNCHANGED <<use_case, source, note_counter, call, frames, returned>>

MapBuilt ==
    /\ built # None
    /\ built[1].tag = "Ok"
    /\ returned["m1"] = <<>>
    /\ Map("m1", built[1].value)

NextPipeline ==
    \/ FromRaw
    \/ MapBuilt
    \/ MapElement("m1")
    \/ MapRelation("m1")
    \/ MapNote("m1")
    \/ MapPackage("m1")
    \/ MapPackageReturn("m1")
    \/ MapReturn("m1")

SpecPipeline == InitPipeline /\ [][NextPipeline]_vars

-----------------------------------------------------------------------------
(* The AST builder on one member line: parse_member_line is handed the     *)
(* text of a member_line pair.                                             *)

\* A letter, a space, the visibility sigils and the punctuation of a
\* signature.
MemberChars == {"a", " ", "+", "-", "#", "~", "(", ")", ":", ","}

\* Every text of up to MaxLineLen of these characters, and the member lines
\* of the class bodies.
MemberLineInputs ==
    UNION { [1..n -> MemberChars] : n \in 0..MaxLineLen }
    \cup {L_field, L_method, L_reversed, L_two_params}

InitMember ==
    /\ source \in { Some(Pair("member_line", text, <<>>)) :
                      text \in MemberLineInputs }
    /\ built = None
    /\ InitMappers
    /\ use_case = Idle

ParseMemberLine ==
    /\ source # None
    /\ built = None
    /\ built' = Some(parse_member_line(source[1].str))
    /\ UNCHANGED <<use_case, source, note_counter, call, frames, returned>>

NextMember == ParseMemberLine

SpecMember == InitMember /\ [][NextMember]_vars

-----------------------------------------------------------------------------
(* The use case: execute hands its source to the adapter's parse, awaits   *)
(* the answer and returns it, the error wrapped.                           *)

\* The sources handed to execute: the files, an accepted source without
\* pairs and two sources the grammar rejects.
SourceInputs ==
    { Accepted(<<f>>) : f \in FileInputs }
    \cup { Accepted(<<>>) }
    \cup { Rejected(e) : e \in {<<>>, <<"e", "r", "r">>} }

\* execute is called and calls the adapter's parse with its source.
Execute ==
    /\ use_case.pc = "idle"
    /\ \E src \in SourceInputs :
          use_case' = [use_case EXCEPT !.pc = "parsing",
                                       !.source = Some(src),
                                       !.parser_calls = Append(@, src)]
    /\ UNCHANGED <<source, built, note_counter, call, frames, returned>>

\* The adapter's parse answers the call it received.
AdapterParse ==
    /\ use_case.pc = "parsing"
    /\ use_case' =
          [use_case EXCEPT
             !.pc = "parsed",
             !.parsed = Some(parse(use_case.parser_calls[
                                       Len(use_case.parser_calls)]))]
    /\ UNCHANGED <<source, built, note_counter, call, frames, returned>>

\* execute returns the answer, an error wrapped in ParserError.
ExecuteReturn ==
    /\ use_case.pc = "parsed"
    /\ use_case' = [use_case EXCEPT !.pc = "done",
                                    !.result = Some(execute(use_case.parsed[1]))]
    /\ UNCHANGED <<source, built, note_counter, call, frames, returned>>

NextUseCase ==
    \/ Execute
    \/ AdapterParse
    \/ ExecuteReturn

SpecUseCase == Init /\ [][NextUseCase]_vars

-----------------------------------------------------------------------------
(* A map call run to completion on its own: the recursion of map,          *)
(* map_statement and map_package, with the counter threaded through.       *)

RECURSIVE MapAlone(_, _)
MapAlone(statements, counter) ==
    IF statements = <<>> THEN [elements |-> <<>>, counter |-> counter]
    ELSE LET stmt == Head(statements)
             first ==
               CASE stmt.tag = "Element" ->
                      [element |-> map_element(stmt), counter |-> counter]
                 [] stmt.tag = "Relation" ->
                      [element |-> map_relation(stmt), counter |-> counter]
                 [] stmt.tag = "Note" ->
                      [element |-> map_note(stmt, counter + 1),
                       counter |-> counter + 1]
                 [] stmt.tag = "Package" ->
                      LET inner == MapAlone(stmt.children, counter) IN
                      [element |-> map_package(stmt, inner.elements),
                       counter |-> inner.counter]
             rest == MapAlone(Tail(statements), first.counter)
         IN  [elements |-> <<first.element>> \o rest.elements,
              counter  |-> rest.counter]

-----------------------------------------------------------------------------
(* Counting operators used to state the properties. *)

\* The Note statements of a statement sequence, nested ones included.
RECURSIVE NotesIn(_)
NotesIn(statements) ==
    IF statements = <<>> THEN 0
    ELSE LET stmt == Head(statements) IN
         (CASE stmt.tag = "Note" -> 1
            [] stmt.tag = "Package" -> NotesIn(stmt.children)
            [] OTHER -> 0)
         + NotesIn(Tail(statements))

\* The Note statements of a statement sequence itself, nested ones excluded.
TopNotesIn(statements) ==
    Cardinality({ i \in 1..Len(statements) : statements[i].tag = "Note" })

\* The Note elements of an element sequence, nested ones included.
RECURSIVE NoteElementsIn(_)
NoteElementsIn(elements) ==
    IF elements = <<>> THEN 0
    ELSE LET e == Head(elements) IN
         (CASE e.tag = "Note" -> 1
            [] e.tag = "Cluster" -> NoteElementsIn(e.children)
            [] OTHER -> 0)
         + NoteElementsIn(Tail(elements))

\* The notes of the first j calls of a call history.
RECURSIVE NotesOfCalls(_, _)
NotesOfCalls(calls, j) ==
    IF j = 0 THEN 0
    ELSE NotesOfCalls(calls, j - 1) + NotesIn(calls[j].ast.statements)

\* The notes the call in progress on m has mapped so far.
RECURSIVE NotesOfFrames(_)
NotesOfFrames(fs) ==
    IF fs = <<>> THEN 0
    ELSE NoteElementsIn(Head(fs).elements) + NotesOfFrames(Tail(fs))

\* The first map call that returned on mapper m: the one made on the
\* mapper as new constructed it.
Fresh(m) == returned[m][1]

-----------------------------------------------------------------------------
(* C1 *)

\* C1, as amended: on a freshly constructed mapper, a top-level Note
\* statement is mapped to the Note whose id is note_k, where k counts the
\* Note statements up to and including it in source order, those nested in
\* the packages before it included (k is its rank among the top-level notes
\* when no package before it holds a note).
C1_TopLevelNoteIds ==
    \A m \in Mappers :
        returned[m] # <<>> =>
            LET stmts == Fresh(m).ast.statements
                elems == Fresh(m).diagram.elements
            IN  \A i \in 1..Len(stmts) :
                    stmts[i].tag = "Note" =>
                        /\ elems[i].tag = "Note"
                        /\ elems[i].id = NoteId(NotesIn(SubSeq(stmts, 1, i)))

\* C1 as claimed: the k-th top-level Note statement gets note_k, for any mix
\* of elements, relations, packages and notes.
C1_Original ==
    \A m \in Mappers :
        returned[m] # <<>> =>
            LET stmts == Fresh(m).ast.statements
                elems == Fresh(m).diagram.elements
            IN  \A i \in 1..Len(stmts) :
                    stmts[i].tag = "Note" =>
                        /\ elems[i].tag = "Note"
                        /\ elems[i].id = NoteId(TopNotesIn(SubSeq(stmts, 1, i)))

\* A fresh mapper returned the Diagram of a package holding a note, followed
\* by a top-level note, which got note_2.
C1_Witness ==
    \E m \in Mappers :
        /\ returned[m] # <<>>
        /\ LET stmts == Fresh(m).ast.statements IN
           /\ Len(stmts) = 2
           /\ stmts[1].tag = "Package"
           /\ NotesIn(stmts[1].children) = 1
           /\ stmts[2].tag = "Note"
           /\ Fresh(m).diagram.elements[2].id = <<"n", "o", "t", "e", "_", "2">>

-----------------------------------------------------------------------------
(* C2 *)

\* C2: two runs of map on the same AST, each on its own freshly constructed
\* mapper, return equal Diagrams.
C2_Determinism ==
    \A m, n \in Mappers :
        (/\ m # n
         /\ returned[m] # <<>>
         /\ returned[n] # <<>>
         /\ Fresh(m).ast = Fresh(n).ast)
        => Fresh(m).diagram = Fresh(n).diagram

\* Both mappers returned the Diagram of the same AST, which has a note.
C2_Witness ==
    /\ returned["m1"] # <<>>
    /\ returned["m2"] # <<>>
    /\ Fresh("m1").ast = Fresh("m2").ast
    /\ NotesIn(Fresh("m1").ast.statements) > 0
    /\ NoteElementsIn(Fresh("m2").diagram.elements) > 0

-----------------------------------------------------------------------------
(* C3 *)

\* C3: however the steps of the two mappers interleave, every map call
\* returns the Diagram it returns when run alone from the counter its own
\* mapper had, and a mapper's counter is the number of notes that mapper
\* itself has mapped.
C3_InterleavedRunsAreIsolated ==
    \A m \in Mappers :
        /\ \A j \in 1..Len(returned[m]) :
               LET c == returned[m][j] IN
               c.diagram =
                   Diagram(c.ast, determine_diagram_kind(c.ast.statements),
                           MapAlone(c.ast.statements,
                                    NotesOfCalls(returned[m], j - 1)).elements)
        /\ note_counter[m] =
               NotesOfCalls(returned[m], Len(returned[m]))
               + NotesOfFrames(frames[m])

\* Both runs are under way at once, each with a note mapped, one of them with
\* statements left to map.
C3_Witness ==
    /\ \A m \in Mappers : call[m] # None /\ NotesOfFrames(frames[m]) > 0
    /\ \E m \in Mappers : Top(m).todo # <<>>

-----------------------------------------------------------------------------
(* The pipeline's states the properties speak of. *)

\* The statement pairs of the file handed to from_raw.
SourceStatements ==
    LET IsStatement(p) == p.rule = "statement"
        pairs == SelectSeq(source[1].inner, IsStatement)
    IN  [i \in 1..Len(pairs) |-> pairs[i].inner[1]]

\* The file holds one statement pair, of the given rule.
SourceIsOne(rule) ==
    /\ source # None
    /\ Len(SourceStatements) = 1
    /\ SourceStatements[1].rule = rule

\* The file holds the one statement pair x.
SourceIs(x) == source # None /\ source[1] = File(<<Statement(x)>>)

\* from_raw returned an AST.
Built == built # None /\ built[1].tag = "Ok"

\* The mapper of the pipeline returned the Diagram.
Mapped == returned["m1"] # <<>>

\* The last component of an arrow pair with the given rule, if any.
ArrowComponent(arrow, rule) ==
    LET at == { i \in 1..Len(arrow.inner) : arrow.inner[i].rule = rule }
    IN  IF at = {} THEN None
        ELSE Some(arrow.inner[CHOOSE i \in at : \A j \in at : j <= i])

\* The arrow end a head glyph stands for before the line style is looked at.
RawEnd(arrow, rule) ==
    LET c == ArrowComponent(arrow, rule)
    IN  IF c = None THEN "None" ELSE map_arrow_head(c[1].str)

-----------------------------------------------------------------------------
(* C4 *)

\* C4: in the arrow build_arrow returns, when the line is Dotted each end
\* that the glyph maps to Association is Dependency and every other end is
\* what the glyph maps to; when the line is Solid both ends are what the
\* glyphs map to and neither is Dependency.
C4_DottedUpgrade ==
    (Built /\ SourceIsOne("relation_def")) =>
        LET pair == SourceStatements[1].inner[2]
            arrow == built[1].value.statements[1].arrow
            rawLeft == RawEnd(pair, "arrow_head_left")
            rawRight == RawEnd(pair, "arrow_head_right")
            Upgraded(e) == IF e = "Association" THEN "Dependency" ELSE e
        IN  /\ arrow.line = "Dotted" =>
                /\ arrow.left = Upgraded(rawLeft)
                /\ arrow.right = Upgraded(rawRight)
            /\ arrow.line = "Solid" =>
                /\ arrow.left = rawLeft
                /\ arrow.right = rawRight
                /\ "Dependency" \notin {arrow.left, arrow.right}

\* build_arrow returned a dotted arrow whose left end was upgraded from
\* Association while its right end, Inheritance, was left alone.
C4_Witness ==
    /\ Built
    /\ SourceIsOne("relation_def")
    /\ RawEnd(SourceStatements[1].inner[2], "arrow_head_left") = "Association"
    /\ built[1].value.statements[1].arrow =
           [line |-> "Dotted", left |-> "Dependency", right |-> "Inheritance"]

-----------------------------------------------------------------------------
(* C5 *)

\* The glyph of an arrow end, as the edge style shows it.
GlyphOf(end) ==
    CASE end = "None" -> "None"
      [] end = "Association" -> "Vee"
      [] end = "Dependency" -> "Vee"
      [] end = "Inheritance" -> "Triangle"
      [] end = "Composition" -> "FilledDiamond"
      [] end = "Aggregation" -> "Diamond"

\* The relation with its left and right arrow ends exchanged.
Exchanged(rel) ==
    [rel EXCEPT !.arrow.left = rel.arrow.right, !.arrow.right = rel.arrow.left]

\* C5: the tail of a mapped edge is the glyph of the relation's left end and
\* its head the glyph of the right end, and the relation with its ends
\* exchanged maps to the edge with head and tail exchanged.
C5_EdgeDirectionality ==
    Mapped =>
        LET stmts == Fresh("m1").ast.statements
            elems == Fresh("m1").diagram.elements
        IN  \A i \in 1..Len(stmts) :
                stmts[i].tag = "Relation" =>
                    /\ elems[i].tag = "Edge"
                    /\ elems[i].style.tail = GlyphOf(stmts[i].arrow.left)
                    /\ elems[i].style.head = GlyphOf(stmts[i].arrow.right)
                    /\ map_relation(Exchanged(stmts[i])).style.head
                         = elems[i].style.tail
                    /\ map_relation(Exchanged(stmts[i])).style.tail
                         = elems[i].style.head

\* A relation with a Composition left end and an Inheritance right end was
\* mapped to an edge with a FilledDiamond tail and a Triangle head.
C5_Witness ==
    /\ Mapped
    /\ Len(Fresh("m1").ast.statements) = 1
    /\ Fresh("m1").ast.statements[1].tag = "Relation"
    /\ Fresh("m1").ast.statements[1].arrow.left = "Composition"
    /\ Fresh("m1").ast.statements[1].arrow.right = "Inheritance"
    /\ Fresh("m1").diagram.elements[1].style.tail = "FilledDiamond"
    /\ Fresh("m1").diagram.elements[1].style.head = "Triangle"

-----------------------------------------------------------------------------
(* C6 *)

\* C6: the interaction of a mapped edge is the one the right end names when
\* the right end is not None, else the one the left end names when the left
\* end is not None, else Association; it is never ControlFlow.
C6_InteractionResolution ==
    Mapped =>
        LET stmts == Fresh("m1").ast.statements
            elems == Fresh("m1").diagram.elements
        IN  \A i \in 1..Len(stmts) :
                stmts[i].tag = "Relation" =>
                    LET left == stmts[i].arrow.left
                        right == stmts[i].arrow.right
                    IN  /\ elems[i].interaction =
                               (IF right # "None" THEN right
                                ELSE IF left # "None" THEN left
                                ELSE "Association")
                        /\ elems[i].interaction # "ControlFlow"

\* A relation with both ends meaningful was mapped: the right end won.
C6_Witness ==
    /\ Mapped
    /\ Len(Fresh("m1").ast.statements) = 1
    /\ Fresh("m1").ast.statements[1].tag = "Relation"
    /\ Fresh("m1").ast.statements[1].arrow.left = "Composition"
    /\ Fresh("m1").ast.statements[1].arrow.right = "Aggregation"
    /\ Fresh("m1").diagram.elements[1].interaction = "Aggregation"

-----------------------------------------------------------------------------
(* C7 *)

\* What C7 says of a file of one relation, with the line type a dotted AST
\* line is mapped to left open.
C7_With(dotted) ==
    (Mapped /\ SourceIsOne("relation_def")) =>
        LET rel == built[1].value.statements[1]
            edge == Fresh("m1").diagram.elements[1]
        IN  /\ SourceIs(DottedDependencyDef) =>
                /\ rel.arrow =
                     [line |-> "Dotted", left |-> "None", right |-> "Dependency"]
                /\ edge.interaction = "Dependency"
                /\ edge.style =
                     [line |-> dotted, tail |-> "None", head |-> "Vee"]
            /\ rel.arrow.line = "Dotted" => edge.style.line = dotted
            /\ rel.arrow.line = "Solid" => edge.style.line = "Solid"

\* C7, as amended: `Auth ..> User` is built to a Dotted arrow with no left
\* end and a Dependency right end and mapped to an Edge with interaction
\* Dependency and style {line: Dashed, tail: None, head: Vee}; the mapped
\* style.line is Dashed for an AST Dotted line and Solid for an AST Solid line.
C7_DottedLineIsDashed == C7_With("Dashed")

\* C7 as claimed: the style's line is Dotted for an AST Dotted line.
C7_Original == C7_With("Dotted")

\* `Auth ..> User` went through the pipeline and came out with a Dashed line.
C7_Witness ==
    /\ Mapped
    /\ SourceIs(DottedDependencyDef)
    /\ Fresh("m1").diagram.elements[1].style.line = "Dashed"

-----------------------------------------------------------------------------
(* C8 *)

\* C8: a mapped Node keeps the element's id; its label is the display name
\* when there is one, else the alias when there is one, else absent.
C8_NodeLabel ==
    Mapped =>
        LET stmts == Fresh("m1").ast.statements
            elems == Fresh("m1").diagram.elements
        IN  \A i \in 1..Len(stmts) :
                stmts[i].tag = "Element" =>
                    /\ elems[i].tag = "Node"
                    /\ elems[i].id = stmts[i].id
                    /\ elems[i].label =
                         (IF stmts[i].display_name # None
                          THEN stmts[i].display_name
                          ELSE IF stmts[i].alias # None THEN stmts[i].alias
                          ELSE None)

\* An element with a display name and an alias was mapped: the label is the
\* display name.
C8_Witness ==
    /\ Mapped
    /\ Len(Fresh("m1").ast.statements) = 1
    /\ Fresh("m1").ast.statements[1].tag = "Element"
    /\ Fresh("m1").ast.statements[1].display_name = Some(S_Main)
    /\ Fresh("m1").ast.statements[1].alias = Some(S_U)
    /\ Fresh("m1").diagram.elements[1].label = Some(S_Main)

-----------------------------------------------------------------------------
(* C9 *)

\* What C9 says of `class User`, with the label left open.
C9_With(label) ==
    (Mapped /\ SourceIs(SimpleClassDef)) =>
        Fresh("m1").diagram.elements =
            << [tag |-> "Node", id |-> S_User, label |-> label,
                node_type |-> "Class", properties |-> {}] >>

\* C9, as amended: `class User` goes through the pipeline to exactly one
\* element, a Node with id "User", no label and node_type Class.
C9_SimpleClass == C9_With(None)

\* C9 as claimed: the Node's label is Some("User").
C9_Original == C9_With(Some(S_User))

\* `class User` went through the pipeline and came out as one Node.
C9_Witness ==
    /\ Mapped
    /\ SourceIs(SimpleClassDef)
    /\ Len(Fresh("m1").diagram.elements) = 1
    /\ Fresh("m1").diagram.elements[1].id = <<"U", "s", "e", "r">>

-----------------------------------------------------------------------------
(* C10 *)

\* An element of kind Class, Interface, AbstractClass or Enum occurs in the
\* statement sequence, at any depth.
RECURSIVE HasDefinitive(_)
HasDefinitive(statements) ==
    \E i \in 1..Len(statements) :
        \/ /\ statements[i].tag = "Element"
           /\ statements[i].kind \in {"Class", "Interface", "AbstractClass", "Enum"}
        \/ /\ statements[i].tag = "Package"
           /\ HasDefinitive(statements[i].children)

\* C10: the Diagram of an AST without an element of kind Class, Interface,
\* AbstractClass or Enum at any depth has kind Class.
C10_KindDefault ==
    Mapped =>
        (~HasDefinitive(Fresh("m1").ast.statements)
            => Fresh("m1").diagram.kind = "Class")

\* The AST of an actor nested in two packages, with nothing definitive in
\* it, was mapped.
C10_Witness ==
    /\ Mapped
    /\ LET stmts == Fresh("m1").ast.statements IN
       /\ ~HasDefinitive(stmts)
       /\ Len(stmts) = 1
       /\ stmts[1].tag = "Package"
       /\ Len(stmts[1].children) = 1
       /\ stmts[1].children[1].tag = "Package"
       /\ Len(stmts[1].children[1].children) = 1
       /\ stmts[1].children[1].children[1].tag = "Element"
       /\ stmts[1].children[1].children[1].kind = "Actor"

-----------------------------------------------------------------------------
(* C11 *)

\* The index of the first Package statement of the sequence when no
\* definitive element comes before it, else 0.
FirstPackage(statements) ==
    LET at == { i \in 1..Len(statements) :
                  /\ statements[i].tag = "Package"
                  /\ \A j \in 1..(i - 1) :
                        /\ statements[j].tag # "Package"
                        /\ ~(/\ statements[j].tag = "Element"
                             /\ statements[j].kind \in
                                  {"Class", "Interface", "AbstractClass", "Enum"}) }
    IN  IF at = {} THEN 0 ELSE CHOOSE i \in at : TRUE

\* Statement sequences put in the place of the siblings after a package.
LaterSiblings ==
    { <<>>,
      <<UmlElement("Class", S_User, None, None, None)>>,
      <<UmlElement("Actor", S_User, None, None, None)>>,
      <<UmlNote(S_text, "Floating", None),
        UmlPackage("Package", S_Auth, None,
                   <<UmlElement("Interface", S_User, None, None, None)>>)>> }

-----------------------------------------------------------------------------
(* C12 *)

\* The table of cluster types, as pairs of package kind and cluster type.
ClusterTable ==
    { <<"Package", "Package">>, <<"Namespace", "Namespace">>,
      <<"Folder", "Folder">>, <<"Rectangle", "Rectangle">>,
      <<"Frame", "Frame">>, <<"Node", "Subgraph">> }

\* Every package of the statements, at any depth, is mapped at its place
\* to the Cluster C12 describes.
RECURSIVE ClustersMatch(_, _)
ClustersMatch(statements, elements) ==
    /\ Len(elements) = Len(statements)
    /\ \A i \in 1..Len(statements) :
          statements[i].tag = "Package" =>
              /\ elements[i].tag = "Cluster"
              /\ elements[i].id = statements[i].id
              /\ elements[i].label = statements[i].display_name
              /\ elements[i].properties = {}
              /\ <<statements[i].kind, elements[i].cluster_type>> \in ClusterTable
              /\ elements[i].cluster_type \notin {"Cloud", "Database"}
              /\ ClustersMatch(statements[i].children, elements[i].children)

\* C12: every package of the AST maps to a Cluster with the package's id,
\* the package's display_name as label, empty properties and the cluster
\* type of the table; Cloud and Database are never produced.
C12_ClusterMapping ==
    Mapped =>
        ClustersMatch(Fresh("m1").ast.statements, Fresh("m1").diagram.elements)

\* A package of kind Node with a display name was mapped to a Subgraph.
C12_Witness ==
    /\ Mapped
    /\ Len(Fresh("m1").ast.statements) = 1
    /\ Fresh("m1").ast.statements[1].tag = "Package"
    /\ Fresh("m1").ast.statements[1].kind = "Node"
    /\ Fresh("m1").ast.statements[1].display_name = Some(S_Main)
    /\ Fresh("m1").diagram.elements[1].cluster_type = "Subgraph"
    /\ Fresh("m1").diagram.elements[1].label = Some(S_Main)

-----------------------------------------------------------------------------
(* C13 *)

\* The table of node types, as pairs of element kind and node type.
NodeTypeTable ==
    { <<"Class", "Class">>, <<"AbstractClass", "Class">>,
      <<"Interface", "Interface">>, <<"Actor", "Actor">>,
      <<"Database", "Database">>, <<"Enum", "Default">>,
      <<"Component", "Default">> }

\* C13: a mapped Node has the node type of the table, never Start or End;
\* its properties hold the key "stereotype" with the stereotype's name when
\* the element has a stereotype and are empty when it has none.
C13_NodeTypeAndStereotype ==
    Mapped =>
        LET stmts == Fresh("m1").ast.statements
            elems == Fresh("m1").diagram.elements
        IN  \A i \in 1..Len(stmts) :
                stmts[i].tag = "Element" =>
                    /\ elems[i].tag = "Node"
                    /\ <<stmts[i].kind, elems[i].node_type>> \in NodeTypeTable
                    /\ elems[i].node_type \notin {"Start", "End"}
                    /\ elems[i].properties =
                         (IF stmts[i].stereotype = None THEN {}
                          ELSE { << <<"s", "t", "e", "r", "e", "o", "t", "y", "p", "e">>,
                                    stmts[i].stereotype[1].name >> })

\* An enum with the stereotype mysql was mapped to a Default node carrying
\* the stereotype.
C13_Witness ==
    /\ Mapped
    /\ Len(Fresh("m1").ast.statements) = 1
    /\ Fresh("m1").ast.statements[1].tag = "Element"
    /\ Fresh("m1").ast.statements[1].kind = "Enum"
    /\ Fresh("m1").ast.statements[1].stereotype = Some([name |-> S_mysql])
    /\ Fresh("m1").diagram.elements[1].node_type = "Default"
    /\ Cardinality(Fresh("m1").diagram.elements[1].properties) = 1

-----------------------------------------------------------------------------
(* C14 *)

\* C14: a mapped Note has the text, the target and the position of the AST
\* note, whatever they are; nothing but its id is made by the mapper.
C14_NotePassThrough ==
    Mapped =>
        LET stmts == Fresh("m1").ast.statements
            elems == Fresh("m1").diagram.elements
        IN  \A i \in 1..Len(stmts) :
                stmts[i].tag = "Note" =>
                    /\ elems[i].tag = "Note"
                    /\ elems[i].text = stmts[i].text
                    /\ elems[i].target_node_id = stmts[i].target
                    /\ elems[i].position = stmts[i].position
                    /\ elems[i].position \in
                         {"Left", "Right", "Top", "Bottom", "Over", "Floating"}
                    /\ DOMAIN elems[i] =
                         {"tag", "id", "text", "position", "target_node_id"}

\* A floating note with a target was mapped and kept its target.
C14_Witness ==
    /\ Mapped
    /\ Len(Fresh("m1").ast.statements) = 1
    /\ Fresh("m1").ast.statements[1].tag = "Note"
    /\ Fresh("m1").ast.statements[1].position = "Floating"
    /\ Fresh("m1").ast.statements[1].target = Some(S_User)
    /\ Fresh("m1").diagram.elements[1].target_node_id = Some(S_User)
    /\ Fresh("m1").diagram.elements[1].position = "Floating"

-----------------------------------------------------------------------------
(* C15 *)

\* The position keywords, as pairs of keyword and position.
PositionTable ==
    { <<K_right, "Right">>, <<K_left, "Left">>, <<K_top, "Top">>,
      <<K_bottom, "Bottom">>, <<K_over, "Over">> }

\* C15: from_raw builds a positional note to a UmlNote with the position
\* of the keyword and the target identifier as target, and a floating note
\* to a UmlNote with position Floating and the alias as target, never None.
C15_NoteVariants ==
    (Built /\ SourceIsOne("note_def")) =>
        LET pair == SourceStatements[1]
            stmts == built[1].value.statements
        IN  /\ Len(stmts) = 1
            /\ stmts[1].tag = "Note"
            /\ IF pair.inner[1].rule = "position"
               THEN /\ <<pair.inner[1].str, stmts[1].position>> \in PositionTable
                    /\ stmts[1].target = Some(pair.inner[2].str)
               ELSE /\ stmts[1].position = "Floating"
                    /\ stmts[1].target = Some(pair.inner[2].str)
                    /\ stmts[1].target # None

\* The floating note `note "text" as N1` was built, with target N1.
C15_Witness ==
    /\ Built
    /\ SourceIsOne("note_def")
    /\ SourceStatements[1].inner[1].rule = "text"
    /\ built[1].value.statements[1].position = "Floating"
    /\ built[1].value.statements[1].target = Some(S_N1)

-----------------------------------------------------------------------------
(* C16 *)

\* Every Note of the elements, at any depth, has no target exactly when its
\* position is Floating.
RECURSIVE TargetNoneIffFloating(_)
TargetNoneIffFloating(elements) ==
    \A i \in 1..Len(elements) :
        /\ elements[i].tag = "Note" =>
              ((elements[i].target_node_id = None)
                   <=> (elements[i].position = "Floating"))
        /\ elements[i].tag = "Cluster" =>
              TargetNoneIffFloating(elements[i].children)

\* C16: in the Diagram the pipeline returns, a Note has target_node_id None
\* exactly when its position is Floating and Some(id) exactly when its
\* position is another one.
C16_TargetNoneIffFloating ==
    Mapped => TargetNoneIffFloating(Fresh("m1").diagram.elements)

-----------------------------------------------------------------------------
(* C17 *)

\* C17: parse_member_line returns a Raw, a Field or a Method for every
\* member line, whatever the order of its characters, and never aborts.
C17_MemberLineTotal ==
    built # None => built[1].tag \in {"Raw", "Field", "Method"}

-----------------------------------------------------------------------------
(* C18 *)

\* A statement pair holding a style directive or a visibility directive.
IsIgnorable(pair) ==
    /\ pair.rule = "statement"
    /\ pair.inner[1].rule \in {"skinparam", "hide_show"}

\* An ignorable statement occurs among the pairs, at any depth.
RECURSIVE HasIgnorable(_)
HasIgnorable(pairs) ==
    \E i \in 1..Len(pairs) :
        \/ IsIgnorable(pairs[i])
        \/ /\ pairs[i].rule = "statement"
           /\ pairs[i].inner[1].rule = "package_def"
           /\ HasIgnorable(pairs[i].inner[1].inner)

\* The pairs with the ignorable statements taken out, at every depth.
RECURSIVE StripIgnorable(_)
StripIgnorable(pairs) ==
    IF pairs = <<>> THEN <<>>
    ELSE LET pair == Head(pairs)
             rest == StripIgnorable(Tail(pairs))
         IN  IF IsIgnorable(pair) THEN rest
             ELSE IF pair.rule = "statement" /\ pair.inner[1].rule = "package_def"
             THEN <<[pair EXCEPT !.inner =
                       <<[pair.inner[1] EXCEPT !.inner = StripIgnorable(@)]>>]>>
                  \o rest
             ELSE <<pair>> \o rest

\* C18: a file with ignorable statements, at file scope or inside a package
\* block, is built without failure to the AST of the same file without
\* them.
C18_IgnorableDropped ==
    (built # None /\ HasIgnorable(source[1].inner)) =>
        /\ built[1].tag = "Ok"
        /\ built[1] = from_raw([source[1] EXCEPT !.inner = StripIgnorable(@)])

-----------------------------------------------------------------------------
(* C19 *)

\* C19: execute calls the adapter's parse once, with its own source; once
\* it has returned, it has returned Ok of the adapter's diagram when the
\* adapter answered Ok and Err of ParserError with the adapter's message as
\* context when the adapter answered Err, and no further call was made.
C19_ExecuteDelegates ==
    /\ use_case.pc # "idle" =>
          use_case.parser_calls = <<use_case.source[1]>>
    /\ use_case.pc = "done" =>
          LET parsed == use_case.parsed[1]
              result == use_case.result[1]
          IN  /\ parsed.tag \in {"Ok", "Err"}
              /\ parsed.tag = "Ok" => result = parsed
              /\ parsed.tag = "Err" =>
                    result = [tag |-> "Err",
                              error |-> [tag |-> "ParserError",
                                         context |-> parsed.error]]

\* execute returned the error of a source the grammar rejected.
C19_Witness ==
    /\ use_case.pc = "done"
    /\ use_case.source[1].tag = "Rejected"
    /\ use_case.parsed[1].tag = "Err"
    /\ use_case.result[1].tag = "Err"
    /\ Len(use_case.parser_calls) = 1

-----------------------------------------------------------------------------
(* C20 *)

\* C20: for a source of one relation, the Edge of the Diagram execute gets
\* from the public parse has as style.tail the glyph of the arrow's left
\* head, as style.head the glyph of its right head, and as interaction the
\* right end's, else the left end's, else Association: what the AST builder
\* followed by the mapper gives for the same relation.
C20_PublicParseKeepsEnds ==
    (/\ use_case.pc = "done"
     /\ use_case.source[1].tag = "Accepted"
     /\ Len(use_case.source[1].pairs) = 1
     /\ Len(use_case.source[1].pairs[1].inner) = 2
     /\ use_case.source[1].pairs[1].inner[1].rule = "statement"
     /\ use_case.source[1].pairs[1].inner[1].inner[1].rule = "relation_def") =>
        LET pair == use_case.source[1].pairs[1].inner[1].inner[1]
            contract == map_relation(build_relation(pair))
            edge == use_case.result[1].value.elements[1]
        IN  /\ use_case.result[1].tag = "Ok"
            /\ edge.tag = "Edge"
            /\ edge.style.tail = contract.style.tail
            /\ edge.style.head = contract.style.head
            /\ edge.interaction = contract.interaction

-----------------------------------------------------------------------------
(* C21 *)

\* The variant a statement is mapped to.
VariantTable ==
    { <<"Element", "Node">>, <<"Relation", "Edge">>, <<"Package", "Cluster">>,
      <<"Note", "Note">> }

\* The elements have the length and order of the statements, each statement
\* mapped to its variant and keeping what identifies it, at every depth.
RECURSIVE StructureMatch(_, _)
StructureMatch(statements, elements) ==
    /\ Len(elements) = Len(statements)
    /\ \A i \in 1..Len(statements) :
          /\ <<statements[i].tag, elements[i].tag>> \in VariantTable
          /\ statements[i].tag \in {"Element", "Package"} =>
                elements[i].id = statements[i].id
          /\ statements[i].tag = "Relation" =>
                /\ elements[i].from = statements[i].from
                /\ elements[i].to = statements[i].to
          /\ statements[i].tag = "Note" =>
                elements[i].text = statements[i].text
          /\ statements[i].tag = "Package" =>
                StructureMatch(statements[i].children, elements[i].children)

\* The greatest of a set of naturals, 0 for the empty set.
Greatest(S) == IF S = {} THEN 0 ELSE CHOOSE x \in S : \A y \in S : y <= x

\* The package nesting depth of a statement sequence.
RECURSIVE PackageDepth(_)
PackageDepth(statements) ==
    Greatest({ 1 + PackageDepth(statements[i].children) :
                 i \in { j \in 1..Len(statements) :
                           statements[j].tag = "Package" } })

\* The cluster nesting depth of an element sequence.
RECURSIVE ClusterDepth(_)
ClusterDepth(elements) ==
    Greatest({ 1 + ClusterDepth(elements[i].children) :
                 i \in { j \in 1..Len(elements) :
                           elements[j].tag = "Cluster" } })

\* C21: at the top level and inside every package the mapped elements have
\* the length and the order of the statements, the i-th statement mapped to
\* its variant; the clusters nest as deep as the packages do.
C21_StructurePreserved ==
    Mapped =>
        /\ StructureMatch(Fresh("m1").ast.statements,
                          Fresh("m1").diagram.elements)
        /\ ClusterDepth(Fresh("m1").diagram.elements)
             = PackageDepth(Fresh("m1").ast.statements)

\* A package of a package, followed by a statement of another variant, was
\* mapped.
C21_Witness ==
    /\ Mapped
    /\ LET stmts == Fresh("m1").ast.statements
           elems == Fresh("m1").diagram.elements
       IN  /\ Len(stmts) = 2
           /\ stmts[1].tag = "Package"
           /\ Len(stmts[1].children) = 1
           /\ stmts[1].children[1].tag = "Package"
           /\ stmts[2].tag = "Relation"
           /\ elems[2].tag = "Edge"
           /\ ClusterDepth(elems) = 2

-----------------------------------------------------------------------------
(* The member line the properties speak of. *)

\* The member line handed to parse_member_line, trimmed.
TrimmedLine == Trim(source[1].str)

\* The trimmed line without its one leading visibility sigil, trimmed.
Signature ==
    IF TrimmedLine # <<>> /\ Head(TrimmedLine) \in {"+", "-", "#", "~"}
    THEN Trim(Tail(TrimmedLine))
    ELSE TrimmedLine

\* The index of the first and of the last occurrence of a character of the
\* signature, 0 when it does not occur.
FirstAt(c) ==
    LET at == { i \in 1..Len(Signature) : Signature[i] = c }
    IN  IF at = {} THEN 0 ELSE CHOOSE i \in at : \A j \in at : i <= j

LastAt(c) ==
    LET at == { i \in 1..Len(Signature) : Signature[i] = c }
    IN  IF at = {} THEN 0 ELSE CHOOSE i \in at : \A j \in at : j <= i

\* parse_member_line was called and what it returned is known.
MemberParsed == source # None /\ source[1].rule = "member_line" /\ built # None

-----------------------------------------------------------------------------
(* C22 *)

\* C22: a line empty after trimming becomes Raw("") and no other line
\* becomes Raw; a non-empty line whose signature holds both `(` and `)`
\* becomes a Method named by the trimmed text before the first `(`; every
\* other non-empty line becomes a Field, its name and type the trimmed
\* sides of the first `:` of the signature, its name the signature and its
\* type absent when there is no `:`.
C22_Classification ==
    MemberParsed =>
        IF TrimmedLine = <<>>
        THEN built[1] = [tag |-> "Raw", text |-> <<>>]
        ELSE IF FirstAt("(") # 0 /\ FirstAt(")") # 0
        THEN /\ built[1].tag = "Method"
             /\ built[1].name = Trim(SubSeq(Signature, 1, FirstAt("(") - 1))
        ELSE /\ built[1].tag = "Field"
             /\ IF FirstAt(":") # 0
                THEN /\ built[1].name =
                          Trim(SubSeq(Signature, 1, FirstAt(":") - 1))
                     /\ built[1].field_type =
                          Some(Trim(SubSeq(Signature, FirstAt(":") + 1,
                                           Len(Signature))))
                ELSE /\ built[1].name = Signature
                     /\ built[1].field_type = None

-----------------------------------------------------------------------------
(* C23 *)

\* The text between the first `(` and the last `)` of the signature,
\* trimmed.
BetweenParens ==
    Trim(SubSeq(Signature, FirstAt("(") + 1, LastAt(")") - 1))

\* The i-th piece of a text cut at its commas.
Piece(text, i) ==
    LET commas == { k \in 1..Len(text) : text[k] = "," }
        Before(k) == Cardinality({ c \in commas : c < k })
        inside == { k \in 1..Len(text) :
                      text[k] # "," /\ Before(k) = i - 1 }
    IN  IF inside = {} THEN <<>>
        ELSE SubSeq(text,
                    CHOOSE k \in inside : \A j \in inside : k <= j,
                    CHOOSE k \in inside : \A j \in inside : j <= k)

\* The first colon of a text, 0 when it has none.
FirstColon(text) ==
    LET at == { k \in 1..Len(text) : text[k] = ":" }
    IN  IF at = {} THEN 0 ELSE CHOOSE k \in at : \A j \in at : k <= j

\* C23: the parameters of a parsed method are the pieces between the commas
\* of the trimmed text between the first `(` and the last `)`, in order, one
\* parameter for each piece; a piece gives the trimmed sides of its first
\* `:` as name and type, and the trimmed piece as name and no type when it
\* has no `:`; an empty or blank text between the parentheses gives no
\* parameter.
C23_MethodParameters ==
    (MemberParsed /\ built[1].tag = "Method") =>
        LET params == built[1].parameters
            commas == Cardinality({ k \in 1..Len(BetweenParens) :
                                      BetweenParens[k] = "," })
        IN  IF BetweenParens = <<>> THEN params = <<>>
            ELSE /\ Len(params) = commas + 1
                 /\ \A i \in 1..Len(params) :
                       LET piece == Trim(Piece(BetweenParens, i))
                           colon == FirstColon(piece)
                       IN  IF colon = 0
                           THEN /\ params[i].name = piece
                                /\ params[i].param_type = None
                           ELSE /\ params[i].name =
                                     Trim(SubSeq(piece, 1, colon - 1))
                                /\ params[i].param_type =
                                     Some(Trim(SubSeq(piece, colon + 1,
                                                      Len(piece))))

\* `f(a: B, c)` was parsed to a method of two parameters, the first typed.
C23_Witness ==
    /\ MemberParsed
    /\ source[1].str = L_two_params
    /\ built[1].tag = "Method"
    /\ Len(built[1].parameters) = 2
    /\ built[1].parameters[1] = [name |-> <<"a">>, param_type |-> Some(<<"B">>)]
    /\ built[1].parameters[2] = [name |-> <<"c">>, param_type |-> None]

-----------------------------------------------------------------------------
(* C24 *)

-----------------------------------------------------------------------------
(* C25 *)

\* The name a signature gives its member: the trimmed text before the first
\* `(` of a method, the trimmed text before the first `:` of a field, the
\* signature of a field without `:`.
NameOfSignature(signature) ==
    IF Contains(signature, "(") /\ Contains(signature, ")")
    THEN Trim(SubSeq(signature, 1, Find(signature, "(") - 1))
    ELSE IF Contains(signature, ":")
    THEN Trim(SubSeq(signature, 1, Find(signature, ":") - 1))
    ELSE signature

\* C25: exactly one leading character of the trimmed member line is
\* consumed as visibility when it is `+` (Public), `-` (Private), `#`
\* (Protected) or `~` (Package); otherwise visibility is absent and nothing
\* is consumed; a second sigil directly after the first is not stripped and
\* stays part of the member's name.
C25_VisibilitySigil ==
    (MemberParsed /\ built[1].tag \in {"Field", "Method"}) =>
        LET first == Head(TrimmedLine)
            sigil == first \in {"+", "-", "#", "~"}
            rest  == IF sigil THEN Tail(TrimmedLine) ELSE TrimmedLine
        IN  /\ built[1].visibility =
                  (IF first = "+" THEN Some("Public")
                   ELSE IF first = "-" THEN Some("Private")
                   ELSE IF first = "#" THEN Some("Protected")
                   ELSE IF first = "~" THEN Some("Package")
                   ELSE None)
            /\ built[1].name = NameOfSignature(Trim(rest))

\* `+-a` was parsed to a public field named `-a`.
C25_Witness ==
    /\ MemberParsed
    /\ source[1].str = <<"+", "-", "a">>
    /\ built[1].tag = "Field"
    /\ built[1].visibility = Some("Public")
    /\ built[1].name = <<"-", "a">>

-----------------------------------------------------------------------------
(* C26 *)

\* The Note statements of a statement sequence in depth-first source order:
\* those of a package come before those of the statements after it.
RECURSIVE NoteStatementsOf(_)
NoteStatementsOf(statements) ==
    IF statements = <<>> THEN <<>>
    ELSE LET stmt == Head(statements) IN
         (CASE stmt.tag = "Note" -> <<stmt>>
            [] stmt.tag = "Package" -> NoteStatementsOf(stmt.children)
            [] OTHER -> <<>>)
         \o NoteStatementsOf(Tail(statements))

\* The Note elements of an element sequence in depth-first order.
RECURSIVE NoteElementsOf(_)
NoteElementsOf(elements) ==
    IF elements = <<>> THEN <<>>
    ELSE LET e == Head(elements) IN
         (CASE e.tag = "Note" -> <<e>>
            [] e.tag = "Cluster" -> NoteElementsOf(e.children)
            [] OTHER -> <<>>)
         \o NoteElementsOf(Tail(elements))

\* C26: within one map call on a fresh mapper the notes of the whole
\* diagram, top-level and nested at any depth, receive the ids note_1,
\* note_2, ... in depth-first source order; the note ids of the Diagram are
\* pairwise distinct and the largest index is the number of notes.
C26_DepthFirstNoteIds ==
    Mapped =>
        LET notes == NoteStatementsOf(Fresh("m1").ast.statements)
            mapped == NoteElementsOf(Fresh("m1").diagram.elements)
        IN  /\ Len(mapped) = Len(notes)
            /\ \A k \in 1..Len(notes) :
                   /\ mapped[k] = map_note(notes[k], k)
                   /\ mapped[k].id = NoteId(k)
            /\ \A j, k \in 1..Len(mapped) :
                   j # k => mapped[j].id # mapped[k].id
            /\ note_counter["m1"] = Len(notes)

\* A fresh mapper returned the Diagram of a package holding a floating note,
\* followed by a note anchored to the left of User: note_1 is the nested
\* one, note_2 the one after the package.
C26_Witness ==
    /\ Mapped
    /\ LET stmts == Fresh("m1").ast.statements
           elems == Fresh("m1").diagram.elements
       IN  /\ Len(stmts) = 2
           /\ stmts[1].tag = "Package"
           /\ Len(stmts[1].children) = 1
           /\ stmts[1].children[1].tag = "Note"
           /\ stmts[1].children[1].position = "Floating"
           /\ stmts[2].tag = "Note"
           /\ stmts[2].position = "Left"
           /\ elems[1].children[1].id = NoteId(1)
           /\ elems[2].id = NoteId(2)

-----------------------------------------------------------------------------
(* C27 *)

\* An element sequence with the id of every Note blanked, at every depth.
RECURSIVE WithoutNoteIds(_)
WithoutNoteIds(elements) ==
    [i \in 1..Len(elements) |->
        LET e == elements[i] IN
        CASE e.tag = "Note" -> [e EXCEPT !.id = <<>>]
          [] e.tag = "Cluster" ->
               [e EXCEPT !.children = WithoutNoteIds(e.children)]
          [] OTHER -> e]

\* The ids of the notes of a Diagram.
NoteIdsOf(diagram) ==
    LET mapped == NoteElementsOf(diagram.elements)
    IN  { mapped[k].id : k \in 1..Len(mapped) }

\* The notes a mapper has mapped: those of the calls that returned and
\* those of the call in progress.
NotesMapped(calls, fs) == NotesOfCalls(calls, Len(calls)) + NotesOfFrames(fs)

\* One step of any mapper: the counter does not decrease and grows by the
\* number of notes the step maps.
C27_Step ==
    \A m \in Mappers :
        /\ note_counter'[m] >= note_counter[m]
        /\ note_counter'[m] - note_counter[m] =
              NotesMapped(returned'[m], frames'[m])
              - NotesMapped(returned[m], frames[m])

\* The second map call on one mapper instance numbers its notes after the
\* last index of the first, its note ids are disjoint from the first
\* call's, it differs from what a fresh mapper returns when both calls
\* mapped a note, and it differs from that in the note ids alone.
C27_SecondCall ==
    \A m \in Mappers :
        Len(returned[m]) = 2 =>
            LET first  == returned[m][1]
                second == returned[m][2]
                n1     == NotesIn(first.ast.statements)
                mapped == NoteElementsOf(second.diagram.elements)
                alone  == Diagram(second.ast,
                                  determine_diagram_kind(second.ast.statements),
                                  MapAlone(second.ast.statements, 0).elements)
            IN  /\ \A k \in 1..Len(mapped) : mapped[k].id = NoteId(n1 + k)
                /\ NoteIdsOf(first.diagram) \cap NoteIdsOf(second.diagram) = {}
                /\ (n1 > 0 /\ Len(mapped) > 0) => second.diagram # alone
                /\ [second.diagram EXCEPT !.elements = WithoutNoteIds(@)]
                     = [alone EXCEPT !.elements = WithoutNoteIds(@)]

\* C27: across any sequence of map calls on one mapper instance,
\* note_counter never decreases and grows by exactly the number of notes
\* mapped; map does not reset it, so a second map call on the same instance
\* numbers its notes starting after the first call's last index (an AST with
\* notes mapped twice on one instance gives two Diagrams with disjoint note
\* ids, the second different from what a fresh mapper returns), while every
\* other field of the result is unaffected by earlier calls.
C27_CounterCarriesOver == [][C27_Step]_vars /\ []C27_SecondCall

\* One mapper instance returned the Diagram of the same AST, which has a
\* note, twice: note_1 the first time, note_2 the second.
C27_Witness ==
    \E m \in Mappers :
        /\ Len(returned[m]) = 2
        /\ returned[m][1].ast = returned[m][2].ast
        /\ NotesIn(returned[m][1].ast.statements) = 1
        /\ NoteIdsOf(returned[m][1].diagram) = {NoteId(1)}
        /\ NoteIdsOf(returned[m][2].diagram) = {NoteId(2)}

-----------------------------------------------------------------------------
(* C28 *)

\* The statement sequences determine_diagram_kind can be called on within
\* one AST: the top-level one and the children of every package, at every
\* depth.
RECURSIVE Levels(_)
Levels(statements) ==
    {statements}
    \cup UNION { Levels(statements[i].children) :
                   i \in { j \in 1..Len(statements) :
                             statements[j].tag = "Package" } }

\* C28: determine_diagram_kind returns Class for every AST, at every
\* recursion level; Sequence, Flowchart and State are never the kind of a
\* mapped Diagram, whatever the statements are.
C28_KindIsAlwaysClass ==
    /\ call["m1"] # None =>
          /\ call["m1"][1].kind = "Class"
          /\ \A s \in Levels(call["m1"][1].ast.statements) :
                 determine_diagram_kind(s) = "Class"
    /\ Mapped =>
          /\ Fresh("m1").diagram.kind = "Class"
          /\ Fresh("m1").diagram.kind \notin {"Sequence", "Flowchart", "State"}

\* The AST of an actor, a relation and a note, with no class, interface,
\* abstract class or enum in it, was mapped to a Diagram of kind Class.
C28_Witness ==
    /\ Mapped
    /\ LET stmts == Fresh("m1").ast.statements IN
       /\ Len(stmts) = 3
       /\ stmts[1].tag = "Element"
       /\ stmts[1].kind = "Actor"
       /\ stmts[2].tag = "Relation"
       /\ stmts[3].tag = "Note"
    /\ Fresh("m1").diagram.kind = "Class"

====
